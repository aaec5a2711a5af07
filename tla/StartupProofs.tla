---------------------------- MODULE StartupProofs ----------------------------
(***************************************************************************)
(* Proofs about Startup, for every configuration file of any length.        *)
(* Normalising twice is normalising once, but for Kboard's public URL; so   *)
(* what New and the constructors validate again is what Load validated, and *)
(* their validations can differ only in whether a CA file is there and in   *)
(* what they think of that URL.                                             *)
(***************************************************************************)
EXTENDS Startup, SequenceTheorems, WellFoundedInduction, TLAPS

-----------------------------------------------------------------------------
(* Normalisation is idempotent *)

LEMMA WithDefaultsStable ==
    ASSUME NEW ds \in Durations
    PROVE  WithDefaults(ds) \in Durations /\ WithDefaults(WithDefaults(ds)) = WithDefaults(ds)
BY DEF Durations, WithDefaults

LEMMA ModeStable ==
    ASSUME NEW m \in Texts
    PROVE  Mode(m) \in Texts /\ Mode(Mode(m)) = Mode(m)
<1>1. /\ Lower[Trim[m]] \in Texts
      /\ Lower[Trim[Lower[Trim[m]]]] = Lower[Trim[m]]
      /\ Lower[Trim["tcp"]] = "tcp" /\ "tcp" \in Texts
      /\ Lower[Trim["kless-server"]] = "kless-server" /\ "kless-server" \in Texts
  BY TextAssumption DEF Texts
<1> QED BY <1>1 DEF Mode

LEMMA UpstreamStable ==
    ASSUME NEW u \in UpstreamConfig
    PROVE  /\ UpstreamDefaults(u) \in UpstreamConfig
           /\ UpstreamDefaults(UpstreamDefaults(u)) = UpstreamDefaults(u)
<1>1. \A t \in Texts : /\ Trim[t] \in Texts /\ Trim[Trim[t]] = Trim[t]
                       /\ Lower[Trim[t]] \in Texts
                       /\ Lower[Trim[Lower[Trim[t]]]] = Lower[Trim[t]]
  BY TextAssumption DEF Texts
<1> QED BY <1>1, WithDefaultsStable DEF UpstreamDefaults, UpstreamConfig

\* One more time changes nothing but the URL, and nothing at all when the URL
\* is left alone by it.
LEMMA KboardOnce ==
    ASSUME NEW k \in KboardConfig
    PROVE  LET n == KboardDefaults(k) IN
           /\ n \in KboardConfig
           /\ NoURL(KboardDefaults(n)) = NoURL(n)
           /\ PublicURL(n.publicURL) = n.publicURL => KboardDefaults(n) = n
<1>1. \A t \in Texts : /\ Trim[t] \in Texts /\ Trim[Trim[t]] = Trim[t]
                       /\ PublicURL(t) \in Texts
  BY TextAssumption DEF Texts, PublicURL
<1> QED BY <1>1, WithDefaultsStable DEF KboardDefaults, KboardConfig, NoURL

LEMMA KboardStable ==
    ASSUME NEW k \in KboardConfig
    PROVE  LET n == KboardDefaults(KboardDefaults(k)) IN
           /\ n \in KboardConfig
           /\ NoURL(KboardDefaults(KboardDefaults(n))) = NoURL(n)
           /\ PublicURL(n.publicURL) = n.publicURL => KboardDefaults(KboardDefaults(n)) = n
<1>1. /\ KboardDefaults(k) \in KboardConfig
      /\ KboardDefaults(KboardDefaults(k)) \in KboardConfig
      /\ KboardDefaults(KboardDefaults(KboardDefaults(k))) \in KboardConfig
  BY KboardOnce
<1> QED BY <1>1, KboardOnce

LEMMA ClientsStable ==
    ASSUME NEW cs \in Seq(ServerKLESSClientConfig)
    PROVE  LET T(s) == [n \in DOMAIN s |-> TrimClient(s[n])] IN
           /\ T(cs) \in Seq(ServerKLESSClientConfig) /\ Len(T(cs)) = Len(cs)
           /\ T(T(cs)) = T(cs)
<1> DEFINE T(s) == [n \in DOMAIN s |-> TrimClient(s[n])]
<1>1. \A e \in ServerKLESSClientConfig :
        /\ TrimClient(e) \in ServerKLESSClientConfig
        /\ TrimClient(TrimClient(e)) = TrimClient(e)
  BY TextAssumption DEF ServerKLESSClientConfig, TrimClient, Texts
<1>2. /\ Len(cs) \in Nat /\ DOMAIN cs = 1..Len(cs)
      /\ \A n \in 1..Len(cs) : cs[n] \in ServerKLESSClientConfig
  BY ElementOfSeq
<1>3. T(cs) \in [1..Len(cs) -> ServerKLESSClientConfig]
  BY <1>1, <1>2
<1>4. T(cs) \in Seq(ServerKLESSClientConfig) /\ Len(T(cs)) = Len(cs)
  BY <1>2, <1>3
<1>5. T(T(cs)) = T(cs)
  BY <1>1, <1>2
<1> QED BY <1>4, <1>5

LEMMA ServerKLESSStable ==
    ASSUME NEW k \in ServerKLESSConfig
    PROVE  /\ ServerKLESSDefaults(k) \in ServerKLESSConfig
           /\ ServerKLESSDefaults(ServerKLESSDefaults(k)) = ServerKLESSDefaults(k)
<1>1. \A t \in Texts : Trim[t] \in Texts /\ Trim[Trim[t]] = Trim[t]
  BY TextAssumption DEF Texts
<1>2. \A key \in Keys : TrimKey(key) \in Keys /\ TrimKey(TrimKey(key)) = TrimKey(key)
  BY NoKeyAssumption, Zenon DEF Keys, TrimKey
<1> QED BY <1>1, <1>2, WithDefaultsStable DEF ServerKLESSDefaults, ServerKLESSConfig

LEMMA TrimClientsStable ==
    ASSUME NEW k \in ServerKLESSConfig
    PROVE  /\ TrimClients(k) \in ServerKLESSConfig
           /\ TrimClients(TrimClients(k)) = TrimClients(k)
           /\ ServerKLESSDefaults(k) = k => ServerKLESSDefaults(TrimClients(k)) = TrimClients(k)
<1> DEFINE T(s) == [n \in DOMAIN s |-> TrimClient(s[n])]
<1>1. k.clients \in Seq(ServerKLESSClientConfig)
  BY DEF ServerKLESSConfig
<1>2. T(k.clients) \in Seq(ServerKLESSClientConfig) /\ T(T(k.clients)) = T(k.clients)
  BY <1>1, ClientsStable
<1>3. TrimClients(k) = [k EXCEPT !.clients = T(k.clients)]
  BY DEF TrimClients
<1>4. TrimClients(TrimClients(k)) = [TrimClients(k) EXCEPT !.clients = T(TrimClients(k).clients)]
  BY DEF TrimClients
<1>5. TrimClients(k).clients = T(k.clients)
  BY <1>3 DEF ServerKLESSConfig
<1>6. TrimClients(k) \in ServerKLESSConfig
  BY <1>2, <1>3 DEF ServerKLESSConfig
<1>7. TrimClients(TrimClients(k)) = TrimClients(k)
  BY <1>2, <1>4, <1>5, <1>6 DEF ServerKLESSConfig
<1>8. ASSUME ServerKLESSDefaults(k) = k
      PROVE  ServerKLESSDefaults(TrimClients(k)) = TrimClients(k)
  <2>1. /\ Trim[k.clientID] = k.clientID /\ WithDefaults(k.durations) = k.durations
        /\ TrimKey(k.secret) = k.secret /\ TrimKey(k.signingKey) = k.signingKey
        /\ TrimKey(k.signingPrivate) = k.signingPrivate
    BY <1>8 DEF ServerKLESSDefaults, ServerKLESSConfig
  <2> HIDE DEF T
  <2> QED BY <1>3, <2>1 DEF ServerKLESSDefaults, ServerKLESSConfig
<1> QED BY <1>6, <1>7, <1>8

LEMMA InboundStable ==
    ASSUME NEW i \in InboundConfig
    PROVE  /\ InboundNormal(i) \in InboundConfig
           /\ InboundNormal(InboundNormal(i)) = InboundNormal(i)
<1>1. \A t \in Texts : Trim[t] \in Texts /\ Trim[Trim[t]] = Trim[t]
  BY TextAssumption DEF Texts
<1> DEFINE j == InboundDefaults(i)
           m == InboundNormal(i)
<1>2. j \in InboundConfig
  BY <1>1, ServerKLESSStable, ModeStable DEF InboundDefaults, InboundConfig
<1>3. InboundDefaults(j) = j
  BY <1>1, ServerKLESSStable, ModeStable DEF InboundDefaults, InboundConfig
<1>4. CASE j.mode # "kless-server"
  BY <1>2, <1>3, <1>4 DEF InboundNormal
<1>5. CASE j.mode = "kless-server"
  <2>1. m = [j EXCEPT !.kless = TrimClients(j.kless)]
    BY <1>5 DEF InboundNormal
  <2> HIDE DEF j
  <2>2. j.kless \in ServerKLESSConfig
    BY <1>2 DEF InboundConfig
  <2>3. m \in InboundConfig
    BY <1>2, <2>1, <2>2, TrimClientsStable DEF InboundConfig
  <2>4. ServerKLESSDefaults(j.kless) = j.kless
    BY <1>2, <1>3 DEF InboundDefaults, InboundConfig
  <2>5. /\ m.kless = TrimClients(j.kless) /\ m.mode = "kless-server"
        /\ m.name = j.name /\ m.listen = j.listen /\ m.upstream = j.upstream
        /\ Trim[j.name] = j.name /\ Trim[j.listen] = j.listen
        /\ Trim[j.upstream] = j.upstream /\ Mode(j.mode) = j.mode
    <3>1. /\ m.kless = TrimClients(j.kless) /\ m.mode = j.mode
          /\ m.name = j.name /\ m.listen = j.listen /\ m.upstream = j.upstream
      BY <1>2, <2>1 DEF InboundConfig
    <3>2. /\ Trim[j.name] = j.name /\ Trim[j.listen] = j.listen
          /\ Trim[j.upstream] = j.upstream /\ Mode(j.mode) = j.mode
      BY <1>2, <1>3 DEF InboundConfig, InboundDefaults
    <3> QED BY <1>5, <3>1, <3>2
  <2>6. /\ ServerKLESSDefaults(m.kless) = m.kless
        /\ TrimClients(m.kless) = m.kless
    BY <2>2, <2>4, <2>5, TrimClientsStable
  <2> HIDE DEF m
  <2>7. Mode(m.mode) = m.mode /\ Trim[m.name] = m.name /\ Trim[m.listen] = m.listen
        /\ Trim[m.upstream] = m.upstream
    BY <1>5, <2>5
  <2>8. InboundDefaults(m) = m
    BY <2>3, <2>6, <2>7 DEF InboundDefaults, InboundConfig
  <2>9. InboundNormal(m) = m
    BY <2>3, <2>5, <2>6, <2>8 DEF InboundNormal, InboundConfig
  <2> QED BY <2>3, <2>9 DEF m
<1> QED BY <1>4, <1>5

\* A configuration to which the defaults were applied is not changed by applying
\* them again, as New does after Load and the constructors after New
\* (config.go:131, 144-186; service.go:44), but for Kboard's public URL, which is
\* trimmed before its slashes go and so may have blanks again (config.go:583);
\* none of its lists grows or shrinks.
THEOREM DefaultsStable ==
    ASSUME NEW c \in Config
    PROVE  LET d == Defaults(c) IN
           /\ d \in Config
           /\ Len(d.upstreams) = Len(c.upstreams) /\ Len(d.inbounds) = Len(c.inbounds)
           /\ WithoutURL(Defaults(d)) = WithoutURL(d)
           /\ (\A k \in d.kboard : PublicURL(k.publicURL) = k.publicURL) => Defaults(d) = d
<1> DEFINE U(s) == [n \in DOMAIN s |-> UpstreamDefaults(s[n])]
           I(s) == [n \in DOMAIN s |-> InboundNormal(s[n])]
           K(s) == {KboardDefaults(KboardDefaults(k)) : k \in s}
           B(s) == {NoURL(k) : k \in s}
           Settled(s) == \A k \in s : PublicURL(k.publicURL) = k.publicURL
           d == Defaults(c)
<1>1. /\ c.nodeID \in Texts /\ c.durations \in Durations
      /\ c.kboard \subseteq KboardConfig
      /\ c.upstreams \in Seq(UpstreamConfig) /\ c.inbounds \in Seq(InboundConfig)
  BY DEF Config
<1>2. /\ U(c.upstreams) \in Seq(UpstreamConfig) /\ Len(U(c.upstreams)) = Len(c.upstreams)
      /\ U(U(c.upstreams)) = U(c.upstreams)
  <2>1. /\ Len(c.upstreams) \in Nat /\ DOMAIN c.upstreams = 1..Len(c.upstreams)
        /\ \A n \in 1..Len(c.upstreams) : c.upstreams[n] \in UpstreamConfig
    BY <1>1, ElementOfSeq
  <2>2. U(c.upstreams) \in [1..Len(c.upstreams) -> UpstreamConfig]
    BY <2>1, UpstreamStable
  <2> QED BY <2>1, <2>2, UpstreamStable
<1>3. /\ I(c.inbounds) \in Seq(InboundConfig) /\ Len(I(c.inbounds)) = Len(c.inbounds)
      /\ I(I(c.inbounds)) = I(c.inbounds)
  <2>1. /\ Len(c.inbounds) \in Nat /\ DOMAIN c.inbounds = 1..Len(c.inbounds)
        /\ \A n \in 1..Len(c.inbounds) : c.inbounds[n] \in InboundConfig
    BY <1>1, ElementOfSeq
  <2>2. I(c.inbounds) \in [1..Len(c.inbounds) -> InboundConfig]
    BY <2>1, InboundStable
  <2> QED BY <2>1, <2>2, InboundStable
<1>4. /\ K(c.kboard) \subseteq KboardConfig
      /\ B(K(K(c.kboard))) = B(K(c.kboard))
      /\ Settled(K(c.kboard)) => K(K(c.kboard)) = K(c.kboard)
  <2> DEFINE T(k) == KboardDefaults(KboardDefaults(k))
  <2>1. \A k \in c.kboard :
          /\ T(k) \in KboardConfig /\ NoURL(T(T(k))) = NoURL(T(k))
          /\ PublicURL(T(k).publicURL) = T(k).publicURL => T(T(k)) = T(k)
    BY <1>1, KboardStable
  <2>2. /\ K(c.kboard) = {T(k) : k \in c.kboard}
        /\ K(K(c.kboard)) = {T(T(k)) : k \in c.kboard}
    OBVIOUS
  <2> HIDE DEF T, K
  <2>3. K(c.kboard) \subseteq KboardConfig
    BY <2>1, <2>2
  <2>4. B(K(K(c.kboard))) = B(K(c.kboard))
    <3> DEFINE V == K(c.kboard)
    <3>1. \A k \in V : NoURL(T(k)) = NoURL(k)
      BY <2>1, <2>2
    <3>2. K(V) = {T(k) : k \in V}
      BY DEF K, T
    <3> HIDE DEF V
    <3>3. \A e : e \in B(K(V)) <=> \E k \in V : e = NoURL(T(k))
      BY <3>2
    <3>4. \A e : e \in B(V) <=> \E k \in V : e = NoURL(k)
      OBVIOUS
    <3> HIDE DEF B
    <3>5. \A e : e \in B(K(V)) <=> e \in B(V)
      BY <3>1, <3>3, <3>4
    <3>6. B(K(V)) = B(V)
      BY <3>5, Zenon
    <3> QED BY <3>6 DEF V
  <2>5. Settled(K(c.kboard)) => K(K(c.kboard)) = K(c.kboard)
    BY <2>1, <2>2
  <2> QED BY <2>3, <2>4, <2>5
<1>5. Trim[c.nodeID] \in Texts /\ Trim[Trim[c.nodeID]] = Trim[c.nodeID]
  BY <1>1, TextAssumption DEF Texts
<1>6. /\ WithDefaults(c.durations) \in Durations
      /\ WithDefaults(WithDefaults(c.durations)) = WithDefaults(c.durations)
  BY <1>1, WithDefaultsStable
<1>7. \A x \in Config : Defaults(x) =
        [x EXCEPT !.nodeID = Trim[x.nodeID], !.durations = WithDefaults(x.durations),
                  !.kboard = K(x.kboard), !.upstreams = U(x.upstreams),
                  !.inbounds = I(x.inbounds)]
  BY DEF Defaults
<1>10. \A x \in Config : WithoutURL(x) = [x EXCEPT !.kboard = B(x.kboard)]
  BY DEF WithoutURL
<1> HIDE DEF U, I, K, B, Settled
<1>8. /\ d.nodeID = Trim[c.nodeID] /\ d.durations = WithDefaults(c.durations)
      /\ d.kboard = K(c.kboard) /\ d.upstreams = U(c.upstreams)
      /\ d.inbounds = I(c.inbounds) /\ d \in Config
  BY <1>1, <1>2, <1>3, <1>4, <1>5, <1>6, <1>7 DEF Config
<1> HIDE DEF d
<1>9. Defaults(d) = [d EXCEPT !.kboard = K(d.kboard)]
  <2>1. /\ Trim[d.nodeID] = d.nodeID /\ WithDefaults(d.durations) = d.durations
        /\ U(d.upstreams) = d.upstreams /\ I(d.inbounds) = d.inbounds
    BY <1>2, <1>3, <1>5, <1>6, <1>8
  <2>2. Defaults(d) = [d EXCEPT !.nodeID = d.nodeID, !.durations = d.durations,
                                !.kboard = K(d.kboard), !.upstreams = d.upstreams,
                                !.inbounds = d.inbounds]
    BY <1>7, <1>8, <2>1
  <2> QED BY <1>8, <2>2 DEF Config
<1>11. Defaults(d) \in Config /\ Defaults(d).kboard = K(d.kboard)
  <2>1. d.kboard \subseteq KboardConfig
    BY <1>8 DEF Config
  <2>2. K(d.kboard) \subseteq KboardConfig
    BY <2>1, KboardStable DEF K
  <2> QED BY <1>8, <1>9, <2>2 DEF Config
<1>12. WithoutURL(Defaults(d)) = WithoutURL(d)
  <2>1. B(K(d.kboard)) = B(d.kboard)
    BY <1>4, <1>8
  <2>2. WithoutURL(Defaults(d)) = [[d EXCEPT !.kboard = K(d.kboard)] EXCEPT !.kboard = B(d.kboard)]
    BY <1>9, <1>10, <1>11, <2>1
  <2>3. WithoutURL(d) = [d EXCEPT !.kboard = B(d.kboard)]
    BY <1>8, <1>10
  <2> QED BY <1>8, <2>2, <2>3 DEF Config
<1>13. Settled(d.kboard) => Defaults(d) = d
  <2>1. Settled(d.kboard) => K(d.kboard) = d.kboard
    BY <1>4, <1>8
  <2>2. [d EXCEPT !.kboard = d.kboard] = d
    BY <1>8 DEF Config
  <2> QED BY <1>9, <2>1, <2>2
<1> QED BY <1>2, <1>3, <1>8, <1>12, <1>13 DEF d, Settled

-----------------------------------------------------------------------------
(* Configurations in their normal form *)

LEMMA ListsTyped ==
    ASSUME NEW c \in Config
    PROVE  /\ Len(c.upstreams) \in Nat /\ DOMAIN c.upstreams = 1..Len(c.upstreams)
           /\ Len(c.inbounds) \in Nat /\ DOMAIN c.inbounds = 1..Len(c.inbounds)
           /\ \A n \in DOMAIN c.upstreams : c.upstreams[n] \in UpstreamConfig
           /\ \A n \in DOMAIN c.inbounds : c.inbounds[n] \in InboundConfig
<1>1. c.upstreams \in Seq(UpstreamConfig) /\ c.inbounds \in Seq(InboundConfig)
  BY DEF Config
<1> QED BY <1>1, LenProperties, ElementOfSeq

Normal(c) == c \in Config /\ WithoutURL(Defaults(c)) = WithoutURL(c)

\* Applying the defaults to a configuration in its normal form leaves all of it
\* alone but the URLs of Kboard's sections.
LEMMA NormalKept ==
    ASSUME NEW c, Normal(c)
    PROVE  LET d == Defaults(c) IN
           /\ d.nodeID = c.nodeID /\ d.durations = c.durations
           /\ d.upstreams = c.upstreams /\ d.inbounds = c.inbounds
           /\ {NoURL(k) : k \in d.kboard} = {NoURL(k) : k \in c.kboard}
<1> DEFINE B(s) == {NoURL(k) : k \in s}
<1>1. c \in Config /\ Defaults(c) \in Config /\ WithoutURL(Defaults(c)) = WithoutURL(c)
  BY DefaultsStable DEF Normal
<1>2. \A x \in Config : WithoutURL(x) = [x EXCEPT !.kboard = B(x.kboard)]
  BY DEF WithoutURL
<1> HIDE DEF B
<1>3. \A x \in Config :
        LET w == [x EXCEPT !.kboard = B(x.kboard)] IN
        /\ w.nodeID = x.nodeID /\ w.durations = x.durations /\ w.kboard = B(x.kboard)
        /\ w.upstreams = x.upstreams /\ w.inbounds = x.inbounds
  BY DEF Config
<1>4. \A x \in Config :
        LET w == WithoutURL(x) IN
        /\ w.nodeID = x.nodeID /\ w.durations = x.durations /\ w.kboard = B(x.kboard)
        /\ w.upstreams = x.upstreams /\ w.inbounds = x.inbounds
  BY <1>2, <1>3
<1>5. LET d == Defaults(c) IN
      /\ d.nodeID = c.nodeID /\ d.durations = c.durations
      /\ d.upstreams = c.upstreams /\ d.inbounds = c.inbounds
      /\ B(d.kboard) = B(c.kboard)
  BY <1>1, <1>4, Zenon
<1> QED BY <1>5 DEF B

LEMMA NormalLists ==
    ASSUME NEW c, Normal(c)
    PROVE  /\ \A n \in DOMAIN c.upstreams : UpstreamDefaults(c.upstreams[n]) = c.upstreams[n]
           /\ \A n \in DOMAIN c.inbounds : InboundNormal(c.inbounds[n]) = c.inbounds[n]
<1> DEFINE U(s) == [n \in DOMAIN s |-> UpstreamDefaults(s[n])]
           I(s) == [n \in DOMAIN s |-> InboundNormal(s[n])]
           K(s) == {KboardDefaults(KboardDefaults(k)) : k \in s}
<1>1. Defaults(c).upstreams = U(c.upstreams) /\ Defaults(c).inbounds = I(c.inbounds)
  <2>1. Defaults(c) =
        [c EXCEPT !.nodeID = Trim[c.nodeID], !.durations = WithDefaults(c.durations),
                  !.kboard = K(c.kboard),
                  !.upstreams = U(c.upstreams), !.inbounds = I(c.inbounds)]
    BY DEF Defaults
  <2> HIDE DEF U, I, K
  <2> QED BY <2>1 DEF Config, Normal
<1>2. c.upstreams = U(c.upstreams) /\ c.inbounds = I(c.inbounds)
  BY <1>1, NormalKept
<1> QED BY <1>2

\* Sections that differ in their URL only agree on everything else.
LEMMA OnlyURLDiffers ==
    ASSUME NEW k \in KboardConfig, NEW l \in KboardConfig, NoURL(k) = NoURL(l)
    PROVE  /\ k.nodeID = l.nodeID /\ k.sharedSecret = l.sharedSecret
           /\ k.usersEndpoint = l.usersEndpoint /\ k.aliveEndpoint = l.aliveEndpoint
           /\ k.durations = l.durations
<1>1. \A x \in KboardConfig :
        /\ NoURL(x).nodeID = x.nodeID /\ NoURL(x).sharedSecret = x.sharedSecret
        /\ NoURL(x).usersEndpoint = x.usersEndpoint
        /\ NoURL(x).aliveEndpoint = x.aliveEndpoint /\ NoURL(x).durations = x.durations
  BY DEF NoURL, KboardConfig
<1> QED BY <1>1, Zenon

\* Settled URLs are left alone too.
LEMMA SettledFixed ==
    ASSUME NEW c, Normal(c), \A k \in c.kboard : PublicURL(k.publicURL) = k.publicURL
    PROVE  Defaults(c) = c
<1> DEFINE K(s) == {KboardDefaults(KboardDefaults(k)) : k \in s}
           d == Defaults(c)
<1>1. c \in Config /\ d \in Config
  BY DefaultsStable DEF Normal
<1>2. d.kboard = K(c.kboard)
  <2> DEFINE U(s) == [n \in DOMAIN s |-> UpstreamDefaults(s[n])]
             I(s) == [n \in DOMAIN s |-> InboundNormal(s[n])]
  <2>1. d = [c EXCEPT !.nodeID = Trim[c.nodeID], !.durations = WithDefaults(c.durations),
                      !.kboard = K(c.kboard),
                      !.upstreams = U(c.upstreams), !.inbounds = I(c.inbounds)]
    BY DEF Defaults
  <2> HIDE DEF U, I, K, d
  <2> QED BY <1>1, <2>1 DEF Config
<1>3. \A k \in c.kboard : KboardDefaults(k) = k
  <2> SUFFICES ASSUME NEW k \in c.kboard PROVE KboardDefaults(k) = k
    OBVIOUS
  <2>1. k \in KboardConfig /\ KboardDefaults(k) \in KboardConfig
    BY <1>1, KboardOnce DEF Config
  <2>2. PICK l \in d.kboard : NoURL(l) = NoURL(k)
    BY NormalKept
  <2>3. PICK m \in KboardConfig : l = KboardDefaults(m)
    <3>1. PICK x \in c.kboard : l = KboardDefaults(KboardDefaults(x))
      BY <1>2, <2>2
    <3>2. x \in KboardConfig
      BY <1>1, <3>1 DEF Config
    <3> QED BY <3>1, <3>2, KboardOnce
  <2>4. l \in KboardConfig /\ NoURL(KboardDefaults(l)) = NoURL(l)
    BY <2>3, KboardOnce
  <2>5. /\ Trim[l.nodeID] = l.nodeID /\ Trim[l.sharedSecret] = l.sharedSecret
        /\ Trim[l.usersEndpoint] = l.usersEndpoint
        /\ Trim[l.aliveEndpoint] = l.aliveEndpoint
        /\ WithDefaults(l.durations) = l.durations
    <3>1. KboardDefaults(l) \in KboardConfig
      BY <2>4, KboardOnce
    <3>2. /\ KboardDefaults(l).nodeID = Trim[l.nodeID]
          /\ KboardDefaults(l).sharedSecret = Trim[l.sharedSecret]
          /\ KboardDefaults(l).usersEndpoint = Trim[l.usersEndpoint]
          /\ KboardDefaults(l).aliveEndpoint = Trim[l.aliveEndpoint]
          /\ KboardDefaults(l).durations = WithDefaults(l.durations)
      BY <2>4 DEF KboardDefaults, KboardConfig
    <3> QED BY <2>4, <3>1, <3>2, OnlyURLDiffers, Zenon
  <2>6. /\ Trim[k.nodeID] = k.nodeID /\ Trim[k.sharedSecret] = k.sharedSecret
        /\ Trim[k.usersEndpoint] = k.usersEndpoint
        /\ Trim[k.aliveEndpoint] = k.aliveEndpoint
        /\ WithDefaults(k.durations) = k.durations
    BY <2>1, <2>2, <2>4, <2>5, OnlyURLDiffers, Zenon
  <2>7. PublicURL(k.publicURL) = k.publicURL
    OBVIOUS
  <2> QED BY <2>1, <2>6, <2>7 DEF KboardDefaults, KboardConfig
<1>4. K(c.kboard) = c.kboard
  BY <1>3
<1>5. d.nodeID = c.nodeID /\ d.durations = c.durations
      /\ d.upstreams = c.upstreams /\ d.inbounds = c.inbounds /\ d.kboard = c.kboard
  BY <1>2, <1>4, NormalKept
<1> HIDE DEF d
<1>6. d = c
  BY <1>1, <1>5 DEF Config
<1> QED BY <1>6 DEF d

-----------------------------------------------------------------------------
(* What a second validation may find *)

LEMMA UpstreamNeedsFile ==
    ASSUME NEW u, NEW F, NEW G, UpstreamValid(u, F), ~UpstreamValid(u, G)
    PROVE  u.caFile # "" /\ u.caFile \notin G
BY Zenon DEF UpstreamValid

LEMMA ValidMonotone ==
    ASSUME NEW c, NEW F, NEW G, F \subseteq G, Valid(c, F)
    PROVE  Valid(c, G)
<1>1. \A u : UpstreamValid(u, F) => UpstreamValid(u, G)
  BY Zenon DEF UpstreamValid
<1> QED BY <1>1, Zenon DEF Valid

LEMMA Revalidation ==
    ASSUME NEW c, Normal(c), NEW F, NEW G, Valid(c, F), ~Valid(Defaults(c), G)
    PROVE  \/ \E u \in Range(c.upstreams) : u.caFile # "" /\ u.caFile \notin G
           \/ \E k \in Defaults(c).kboard : ~PublicURLValid(k)
<1> DEFINE d == Defaults(c)
           B(s) == {NoURL(k) : k \in s}
           dynamic(s) == \E k \in s : k.usersEndpoint # ""
<1> SUFFICES ASSUME \A u \in Range(c.upstreams) : u.caFile # "" => u.caFile \in G,
                    \A k \in d.kboard : PublicURLValid(k)
             PROVE  Valid(d, G)
  BY Zenon
<1>1. /\ c.kboard \subseteq KboardConfig /\ d.kboard \subseteq KboardConfig
      /\ B(d.kboard) = B(c.kboard)
  BY NormalKept, DefaultsStable DEF Normal, Config
<1>2. /\ d.nodeID = c.nodeID /\ d.durations = c.durations
      /\ d.upstreams = c.upstreams /\ d.inbounds = c.inbounds
  BY NormalKept
<1> HIDE DEF d
<1>3. /\ \A k \in d.kboard : \E l \in c.kboard : NoURL(k) = NoURL(l)
      /\ \A l \in c.kboard : \E k \in d.kboard : NoURL(k) = NoURL(l)
  <2>1. /\ \A k \in d.kboard : NoURL(k) \in B(d.kboard)
        /\ \A l \in c.kboard : NoURL(l) \in B(c.kboard)
    OBVIOUS
  <2>2. \A s, e : e \in B(s) => \E k \in s : e = NoURL(k)
    OBVIOUS
  <2> HIDE DEF B
  <2>3. /\ \A k \in d.kboard : NoURL(k) \in B(c.kboard)
        /\ \A l \in c.kboard : NoURL(l) \in B(d.kboard)
    BY <1>1, <2>1, Zenon
  <2>4. \A k \in d.kboard : \E l \in c.kboard : NoURL(k) = NoURL(l)
    BY <2>2, <2>3, Zenon
  <2>5. \A l \in c.kboard : \E k \in d.kboard : NoURL(l) = NoURL(k)
    BY <2>2, <2>3, Zenon
  <2> QED BY <2>4, <2>5, Zenon
<1>4. ASSUME NEW k \in d.kboard PROVE KboardValid(k)
  <2>1. PICK l \in c.kboard : NoURL(k) = NoURL(l)
    BY <1>3, Zenon
  <2>2. /\ k.nodeID = l.nodeID /\ k.sharedSecret = l.sharedSecret
        /\ k.aliveEndpoint = l.aliveEndpoint /\ k.durations = l.durations
    BY <1>1, <2>1, OnlyURLDiffers
  <2>3. KboardValid(l)
    BY Zenon DEF Valid
  <2> QED BY <2>2, <2>3, Zenon DEF KboardValid
<1>5. dynamic(d.kboard) <=> dynamic(c.kboard)
  <2>1. /\ \A k \in d.kboard : \E l \in c.kboard : k.usersEndpoint = l.usersEndpoint
        /\ \A l \in c.kboard : \E k \in d.kboard : k.usersEndpoint = l.usersEndpoint
    BY <1>1, <1>3, OnlyURLDiffers
  <2> QED BY <2>1, Zenon
<1>6. ASSUME NEW n \in DOMAIN c.upstreams PROVE UpstreamValid(c.upstreams[n], G)
  <2>1. UpstreamValid(c.upstreams[n], F) /\ c.upstreams[n] \in Range(c.upstreams)
    BY Zenon DEF Valid, Range
  <2> QED BY <2>1, UpstreamNeedsFile, Zenon
<1>7. \A n \in DOMAIN c.inbounds :
        InboundValid(c.inbounds[n], {c.upstreams[m].name : m \in DOMAIN c.upstreams},
                     dynamic(c.kboard))
  BY Zenon DEF Valid
<1>8. \A i, U : InboundValid(i, U, dynamic(c.kboard)) => InboundValid(i, U, dynamic(d.kboard))
  BY <1>5, Zenon DEF InboundValid, ServerKLESSValid
<1>9. /\ c.nodeID # "" /\ c.inbounds # <<>> /\ DurationsOK(c.durations)
      /\ NamesDiffer(c.upstreams) /\ NamesDiffer(c.inbounds)
  BY Zenon DEF Valid
<1> QED BY <1>2, <1>4, <1>6, <1>7, <1>8, <1>9, Zenon DEF Valid

\* What Load accepted, New refuses only for want of a CA file, which is all that
\* Validate looks at outside the configuration, or for the URL of Kboard as it
\* has become by being normalised again: empty, or not a URL any more
\* (config.go:144-186, 188-205, 230-267, 583).
THEOREM SecondValidation ==
    ASSUME NEW c \in Config, NEW F, NEW G,
           Valid(Defaults(c), F), ~Valid(Defaults(Defaults(c)), G)
    PROVE  \/ \E u \in Range(Defaults(c).upstreams) : u.caFile # "" /\ u.caFile \notin G
           \/ \E k \in Defaults(Defaults(c)).kboard : ~PublicURLValid(k)
<1>1. Normal(Defaults(c))
  BY DefaultsStable DEF Normal
<1> QED BY <1>1, Revalidation, Zenon

-----------------------------------------------------------------------------
(* The map made of a list of credentials *)

\* A set of indexes has a largest one.
LEMMA LargestExists ==
    ASSUME NEW n \in Nat, NEW S, S \subseteq 1..n, S # {}
    PROVE  \E k \in S : \A j \in S : j <= k
  <1>. DEFINE Bounds == {m \in Nat : \A j \in S : j <= m}
  <1>1. Bounds \subseteq Nat /\ Bounds # {}
    <2>1. n \in Bounds
      OBVIOUS
    <2>. QED
      BY <2>1
  <1>2. \E m \in Bounds : \A b \in Bounds : ~(<<b, m>> \in OpToRel(<, Nat))
    <2>. HIDE DEF Bounds
    <2>. QED
      BY <1>1, NatLessThanWellFounded, WFMin
  <1>3. PICK m \in Bounds : \A b \in Bounds : ~(b < m)
    <2>1. \A b, m \in Nat : b < m => <<b, m>> \in OpToRel(<, Nat)
      BY DEF OpToRel
    <2>. QED
      BY <1>1, <1>2, <2>1
  <1>4. m \in S
    <2>. SUFFICES ASSUME m \notin S PROVE FALSE
      OBVIOUS
    <2>1. m \in Nat /\ \A j \in S : j \in Nat /\ 1 <= j /\ j < m
      BY <1>3
    <2>2. PICK j \in S : TRUE
      OBVIOUS
    <2>3. m - 1 \in Nat /\ \A i \in S : i <= m - 1
      BY <2>1, <2>2
    <2>4. m - 1 \in Bounds /\ m - 1 < m
      BY <2>1, <2>3
    <2>. QED
      BY <1>3, <2>4
  <1>. QED
    BY <1>3, <1>4

\* When every entry has an id and a secret, the map knows each id by the secret
\* of an entry that has it.
LEMMA CredentialMapCorrect ==
    ASSUME NEW entries \in Seq(ServerKLESSClientConfig),
           \A e \in Range(entries) : Trim[e.id] # "" /\ Length[e.secret] > 0
    PROVE  /\ DOMAIN CredentialMap(entries) = {Trim[e.id] : e \in Range(entries)}
           /\ \A id \in DOMAIN CredentialMap(entries) :
                \E e \in Range(entries) :
                    Trim[e.id] = id /\ CredentialMap(entries)[id] = e.secret
<1>1. Len(entries) \in Nat /\ DOMAIN entries = 1..Len(entries)
  BY LenProperties, Zenon
<1> DEFINE usable == {n \in DOMAIN entries :
                        Trim[entries[n].id] # "" /\ Length[entries[n].secret] > 0}
           for(id) == {n \in usable : Trim[entries[n].id] = id}
<1>2. usable = DOMAIN entries
  BY Zenon DEF Range
<1>3. CredentialMap(entries) =
        [id \in {Trim[entries[n].id] : n \in usable} |-> entries[Max(for(id))].secret]
  BY DEF CredentialMap
<1> HIDE DEF usable
<1>4. DOMAIN CredentialMap(entries) = {Trim[e.id] : e \in Range(entries)}
  <2>1. DOMAIN CredentialMap(entries) = {Trim[entries[n].id] : n \in DOMAIN entries}
    BY <1>2, <1>3
  <2> QED BY <2>1 DEF Range
<1>5. ASSUME NEW id \in DOMAIN CredentialMap(entries)
      PROVE  \E e \in Range(entries) :
                Trim[e.id] = id /\ CredentialMap(entries)[id] = e.secret
  <2>1. for(id) # {} /\ for(id) \subseteq 1..Len(entries)
    BY <1>1, <1>2, <1>3
  <2> HIDE DEF for
  <2>2. \E k \in for(id) : \A j \in for(id) : j <= k
    BY <1>1, <2>1, LargestExists
  <2>3. Max(for(id)) \in for(id)
    <3>1. \E k \in for(id) : \A j \in for(id) : k >= j
      BY <2>1, <2>2
    <3> QED BY <3>1 DEF Max
  <2>4. entries[Max(for(id))] \in Range(entries) /\ Trim[entries[Max(for(id))].id] = id
    BY <1>2, <2>3, Zenon DEF for, Range
  <2>5. CredentialMap(entries)[id] = entries[Max(for(id))].secret
    BY <1>3
  <2> QED BY <2>4, <2>5
<1> QED BY <1>4, <1>5

-----------------------------------------------------------------------------
(* The credentials of a validated inbound *)

\* A kless-server inbound in its normal form, once validated, has credentials
\* that the relay accepts: each has an id without blanks around it and a secret
\* of 32 bytes or more, and the relay's private key has its 64 bytes.
LEMMA CredentialsSound ==
    ASSUME NEW i \in InboundConfig, InboundNormal(i) = i, i.mode = "kless-server",
           NEW upstreams, NEW dynamicUsers, InboundValid(i, upstreams, dynamicUsers)
    PROVE  /\ Length[i.kless.signingPrivate] = 64
           /\ StaticCredentials(i.kless) \in Seq(ServerKLESSClientConfig)
           /\ \A e \in Range(StaticCredentials(i.kless)) :
                /\ Trim[e.id] # "" /\ Length[e.secret] \in Int /\ Length[e.secret] >= 32
           /\ StaticCredentials(i.kless) # <<>> \/ dynamicUsers
<1> DEFINE k == i.kless
           j == InboundDefaults(i)
           own == IF k.clientID # "" /\ k.secret # ""
                  THEN <<[id |-> k.clientID, secret |-> k.secret]>> ELSE <<>>
<1>1. ServerKLESSValid(k, dynamicUsers)
  BY DEF InboundValid
<1>2. k \in ServerKLESSConfig
  BY DEF InboundConfig
<1>3. k = TrimClients(ServerKLESSDefaults(k))
  <2>1. j.mode = "kless-server" /\ j.kless = ServerKLESSDefaults(k)
    <3>1. j = [i EXCEPT !.name = Trim[i.name], !.listen = Trim[i.listen],
                        !.mode = Mode(i.mode), !.upstream = Trim[i.upstream],
                        !.kless = ServerKLESSDefaults(i.kless)]
      BY DEF InboundDefaults
    <3>2. j.mode = Mode(i.mode) /\ j.kless = ServerKLESSDefaults(k)
      BY <3>1 DEF InboundConfig
    <3>3. Mode("kless-server") = "kless-server"
      BY TextAssumption DEF Mode
    <3> QED BY <3>2, <3>3
  <2>2. j \in InboundConfig
    BY TextAssumption, ModeStable, ServerKLESSStable
       DEF InboundDefaults, InboundConfig, Texts
  <2>3. i = [j EXCEPT !.kless = TrimClients(j.kless)]
    BY <2>1 DEF InboundNormal
  <2> HIDE DEF j
  <2>4. i.kless = TrimClients(j.kless)
    BY <2>2, <2>3 DEF InboundConfig
  <2> QED BY <2>1, <2>4
<1>4. k.clientID = Trim[k.clientID]
  <2>1. ServerKLESSDefaults(k).clientID = Trim[k.clientID]
    BY <1>2 DEF ServerKLESSDefaults, ServerKLESSConfig
  <2>2. TrimClients(ServerKLESSDefaults(k)).clientID = ServerKLESSDefaults(k).clientID
    BY <1>2, ServerKLESSStable DEF TrimClients, ServerKLESSConfig
  <2> QED BY <1>3, <2>1, <2>2
<1>5. \A n \in DOMAIN k.clients : k.clients[n].id = Trim[k.clients[n].id]
  <2> DEFINE T(s) == [n \in DOMAIN s |-> TrimClient(s[n])]
  <2>1. ServerKLESSDefaults(k).clients = k.clients
    BY <1>2 DEF ServerKLESSDefaults, ServerKLESSConfig
  <2>2. TrimClients(ServerKLESSDefaults(k)).clients = T(ServerKLESSDefaults(k).clients)
    <3>1. TrimClients(ServerKLESSDefaults(k)) =
            [ServerKLESSDefaults(k) EXCEPT !.clients = T(ServerKLESSDefaults(k).clients)]
      BY DEF TrimClients
    <3> HIDE DEF T
    <3> QED BY <1>2, <3>1, ServerKLESSStable DEF ServerKLESSConfig
  <2>3. k.clients = T(k.clients)
    BY <1>3, <2>1, <2>2
  <2>4. \A n \in DOMAIN k.clients : k.clients[n] = TrimClient(k.clients[n])
    BY <2>3
  <2>5. \A n \in DOMAIN k.clients : k.clients[n] \in ServerKLESSClientConfig
    <3>1. k.clients \in Seq(ServerKLESSClientConfig)
      BY <1>2 DEF ServerKLESSConfig
    <3> QED BY <3>1, LenProperties, ElementOfSeq
  <2>6. \A e \in ServerKLESSClientConfig : TrimClient(e).id = Trim[e.id]
    BY DEF TrimClient, ServerKLESSClientConfig
  <2> QED BY <2>4, <2>5, <2>6, Zenon
<1> HIDE DEF k
<1>6. Length[k.signingPrivate] = 64
  BY <1>1, KeyAssumption DEF ServerKLESSValid
<1>7. /\ k.clients \in Seq(ServerKLESSClientConfig)
      /\ \A e \in Range(k.clients) :
            Trim[e.id] # "" /\ Length[e.secret] \in Int /\ Length[e.secret] >= 32
  <2>1. k.clients \in Seq(ServerKLESSClientConfig)
    BY <1>2 DEF ServerKLESSConfig
  <2>2. \A n \in DOMAIN k.clients : k.clients[n] \in ServerKLESSClientConfig
    BY <2>1, LenProperties, ElementOfSeq
  <2>3. \A e \in ServerKLESSClientConfig : Length[e.secret] \in Int
    BY KeyAssumption DEF ServerKLESSClientConfig, Keys
  <2>4. \A n \in DOMAIN k.clients :
          k.clients[n].id # "" /\ Length[k.clients[n].secret] >= 32
    BY <1>1, Zenon DEF ServerKLESSValid
  <2>5. \A n \in DOMAIN k.clients : Trim[k.clients[n].id] # ""
    BY <1>5, <2>4, Zenon
  <2>6. \A e \in Range(k.clients) :
          Trim[e.id] # "" /\ Length[e.secret] \in Int /\ Length[e.secret] >= 32
    BY <2>2, <2>3, <2>4, <2>5, Zenon DEF Range
  <2> QED BY <2>1, <2>6
<1>8. /\ own \in Seq(ServerKLESSClientConfig)
      /\ \A e \in Range(own) :
            Trim[e.id] # "" /\ Length[e.secret] \in Int /\ Length[e.secret] >= 32
  <2>1. CASE k.clientID # "" /\ k.secret # ""
    <3> DEFINE e == [id |-> k.clientID, secret |-> k.secret]
    <3>1. e \in ServerKLESSClientConfig
      BY <1>2 DEF ServerKLESSConfig, ServerKLESSClientConfig
    <3>2. Trim[e.id] # ""
      BY <1>4, <2>1
    <3>3. Length[e.secret] >= 32 /\ Length[e.secret] \in Int
      <4>1. Length[k.secret] >= 32
        BY <1>1, <2>1, Zenon DEF ServerKLESSValid
      <4>2. Length[k.secret] \in Int
        BY <1>2, KeyAssumption DEF ServerKLESSConfig, Keys
      <4> QED BY <4>1, <4>2
    <3> HIDE DEF e
    <3>4. own = <<e>>
      BY <2>1 DEF e
    <3>5. Range(<<e>>) = {e} /\ <<e>> \in Seq(ServerKLESSClientConfig)
      BY <3>1 DEF Range
    <3> QED BY <3>2, <3>3, <3>4, <3>5
  <2>2. CASE ~(k.clientID # "" /\ k.secret # "")
    <3>1. own = <<>>
      BY <2>2
    <3>2. Range(<<>>) = {}
      BY DEF Range
    <3>3. <<>> \in Seq(ServerKLESSClientConfig)
      BY EmptySeq, Zenon
    <3> HIDE DEF own
    <3> QED BY <3>1, <3>2, <3>3, Zenon
  <2> QED BY <2>1, <2>2
<1>9. StaticCredentials(k) = own \o k.clients
  BY DEF StaticCredentials
<1>10. own # <<>> \/ k.clients # <<>> \/ dynamicUsers
  <2>1. k.clientID # "" /\ k.secret # "" => own # <<>>
    OBVIOUS
  <2> QED BY <1>1, <2>1, Zenon DEF ServerKLESSValid
<1> HIDE DEF own
<1>11. /\ StaticCredentials(k) \in Seq(ServerKLESSClientConfig)
       /\ Range(StaticCredentials(k)) = Range(own) \cup Range(k.clients)
  <2>1. own \o k.clients \in Seq(ServerKLESSClientConfig)
    BY <1>7, <1>8, ConcatProperties, Zenon
  <2>2. Range(own \o k.clients) = Range(own) \cup Range(k.clients)
    BY <1>7, <1>8, RangeConcatenation, Zenon
  <2> QED BY <1>9, <2>1, <2>2, Zenon
<1>12. StaticCredentials(k) # <<>> \/ dynamicUsers
  <2>1. \A s, t \in Seq(ServerKLESSClientConfig) : s \o t = <<>> => s = <<>> /\ t = <<>>
    <3> HIDE DEF j
    <3> QED BY ConcatEqualIffEmpty
  <2> QED BY <1>7, <1>8, <1>9, <1>10, <2>1, Zenon
<1> QED BY <1>6, <1>7, <1>8, <1>11, <1>12 DEF k

-----------------------------------------------------------------------------
(* The inductive invariant *)

\* Validated configurations are in their normal form.
ConfigInv ==
    /\ cfg \in Config
    /\ stage \in {"read", "checked", "refused", "dialers", "relays", "built", "failed"}
    /\ stage # "read" => Normal(cfg)
    /\ caFiles \subseteq PEMFiles
    /\ stage \in {"checked", "dialers", "relays", "built"} => Valid(cfg, PEMFiles)

PlaceInv ==
    /\ next \in 1..(Len(cfg.upstreams) + Len(cfg.inbounds) + 1)
    /\ stage \in {"read", "checked", "refused"} => next = 1
    /\ stage = "dialers" => next <= Len(cfg.upstreams) + 1
    /\ stage = "relays" => next <= Len(cfg.inbounds) + 1
    /\ stage = "built" => next = Len(cfg.inbounds) + 1

FailInv ==
    stage = "failed" =>
        \/ \E u \in Upstreams : u.caFile # "" /\ u.caFile \notin caFiles
        \/ \E k \in cfg.kboard : ~PublicURLValid(k)

\* The upstreams whose turn has been have a dialer, which is made for one of them.
DialerInv ==
    /\ stage \in {"read", "checked", "refused"} => dialers = Empty
    /\ \A name \in DOMAIN dialers : dialers[name] \in Upstreams /\ dialers[name].name = name
    /\ \A n \in DOMAIN cfg.upstreams :
        (stage = "dialers" /\ n < next) \/ stage \in {"relays", "built"}
            => cfg.upstreams[n].name \in DOMAIN dialers

\* The kless-server inbounds whose turn has been, and the clients they list.
Served == {cfg.inbounds[n] : n \in {m \in DOMAIN cfg.inbounds :
                                        m < next /\ cfg.inbounds[m].mode = "kless-server"}}
Given == UNION {Range(StaticCredentials(i.kless)) : i \in Served}

RelayInv ==
    /\ stage \notin {"relays", "built"} => relays = Empty
    /\ \A name \in DOMAIN relays : relays[name] \in Servers /\ relays[name].name = name
    /\ stage \in {"relays", "built"} => \A i \in Served : i.name \in DOMAIN relays

\* The store knows the clients listed so far and no other.
StoreInv ==
    /\ stage \notin {"relays", "built"} => store = Empty
    /\ stage \in {"relays", "built"} =>
        /\ DOMAIN store = {Trim[e.id] : e \in Given}
        /\ \A id \in DOMAIN store : \E e \in Given : Trim[e.id] = id /\ store[id] = e.secret

Inv == ConfigInv /\ PlaceInv /\ FailInv /\ DialerInv /\ RelayInv /\ StoreInv

\* It is the turn of a kless-server inbound.
NextIsServer ==
    /\ stage = "relays" /\ next <= Len(cfg.inbounds)
    /\ cfg.inbounds[next].mode = "kless-server"

LEMMA NextServerSound ==
    ASSUME ConfigInv, PlaceInv, NextIsServer
    PROVE  LET i == cfg.inbounds[next] IN
           /\ next \in DOMAIN cfg.inbounds
           /\ Length[i.kless.signingPrivate] = 64
           /\ StaticCredentials(i.kless) \in Seq(ServerKLESSClientConfig)
           /\ \A e \in Range(StaticCredentials(i.kless)) :
                Trim[e.id] # "" /\ Length[e.secret] > 0 /\ Decodes(e.secret)
<1> DEFINE i == cfg.inbounds[next]
<1>1. Normal(cfg) /\ cfg \in Config /\ Valid(cfg, PEMFiles)
  BY DEF ConfigInv, NextIsServer
<1>2. next \in DOMAIN cfg.inbounds
  BY <1>1, ListsTyped DEF PlaceInv, NextIsServer
<1>3. i \in InboundConfig /\ InboundNormal(i) = i
  BY <1>1, <1>2, ListsTyped, NormalLists
<1>4. PICK upstreams, dynamicUsers : InboundValid(i, upstreams, dynamicUsers)
  BY <1>1, <1>2, Zenon DEF Valid
<1>5. i.mode = "kless-server"
  BY DEF NextIsServer
<1> HIDE DEF i
<1>6. /\ Length[i.kless.signingPrivate] = 64
      /\ StaticCredentials(i.kless) \in Seq(ServerKLESSClientConfig)
      /\ \A e \in Range(StaticCredentials(i.kless)) :
            Trim[e.id] # "" /\ Length[e.secret] \in Int /\ Length[e.secret] >= 32
  BY <1>3, <1>4, <1>5, CredentialsSound, Zenon
<1>7. \A x \in Int : x >= 32 => x > 0 /\ x >= 0
  OBVIOUS
<1>8. \A e \in Range(StaticCredentials(i.kless)) :
        Trim[e.id] # "" /\ Length[e.secret] > 0 /\ Decodes(e.secret)
  BY <1>6, <1>7, Zenon DEF Decodes
<1> QED BY <1>2, <1>6, <1>8, Zenon DEF i

LEMMA InitInv == Init => Inv
<1> SUFFICES ASSUME Init PROVE Inv
  OBVIOUS
<1>1. cfg \in Config /\ stage = "read" /\ next = 1
      /\ caFiles = PEMFiles /\ dialers = Empty /\ relays = Empty /\ store = Empty
  BY FileAssumption DEF Init
<1>2. ConfigInv
  BY <1>1 DEF ConfigInv
<1>3. PlaceInv
  <2>1. next \in 1..(Len(cfg.upstreams) + Len(cfg.inbounds) + 1)
    <3>1. \A a, b \in Nat : 1 \in 1..(a + b + 1)
      OBVIOUS
    <3> QED BY <1>1, <3>1, ListsTyped, Zenon
  <2> QED BY <1>1, <2>1, Zenon DEF PlaceInv
<1>4. FailInv
  BY <1>1 DEF FailInv
<1>5. DialerInv
  <2>1. \A name \in DOMAIN dialers : FALSE
    BY <1>1 DEF Empty
  <2>2. \A n \in DOMAIN cfg.upstreams : ~((stage = "dialers" /\ n < next)
            \/ stage \in {"relays", "built"})
    BY <1>1
  <2> QED BY <1>1, <2>1, <2>2, Zenon DEF DialerInv
<1>6. RelayInv
  <2>1. \A name \in DOMAIN relays : FALSE
    BY <1>1 DEF Empty
  <2> QED BY <1>1, <2>1 DEF RelayInv
<1>7. StoreInv
  BY <1>1 DEF StoreInv
<1> QED BY <1>2, <1>3, <1>4, <1>5, <1>6, <1>7 DEF Inv

\* After Load, only New changes the configuration, and only its URLs; a step
\* fails only for want of a CA file or for a URL.
ConfigStep ==
    stage # "read" =>
        /\ cfg'.upstreams = cfg.upstreams /\ cfg'.inbounds = cfg.inbounds
        /\ WithoutURL(cfg') = WithoutURL(cfg)
        /\ (\A k \in cfg.kboard : PublicURL(k.publicURL) = k.publicURL) => cfg' = cfg
        /\ stage # "checked" => cfg' = cfg

LEMMA ConfigNext == Inv /\ [Next]_vars => ConfigInv' /\ FailInv' /\ ConfigStep
<1> SUFFICES ASSUME Inv, [Next]_vars
             PROVE  ConfigInv' /\ FailInv' /\ ConfigStep
  OBVIOUS
<1> USE DEF Inv
<1>0. cfg' = cfg => ConfigStep
  BY Zenon DEF ConfigStep
<1>1. CASE Load
  <2>1. Normal(cfg') /\ cfg' \in Config
    BY <1>1, DefaultsStable DEF Load, ConfigInv, Normal
  <2>2. Valid(cfg', caFiles) => Valid(cfg', PEMFiles)
    BY ValidMonotone, Zenon DEF ConfigInv
  <2>3. /\ stage = "read" /\ caFiles' = caFiles
        /\ stage' = IF Valid(cfg', caFiles) THEN "checked" ELSE "refused"
    BY <1>1 DEF Load
  <2>4. ConfigInv' /\ FailInv'
    <3>1. Normal(cfg)' <=> Normal(cfg')
      BY DEF Normal
    <3> QED BY <2>1, <2>2, <2>3, <3>1 DEF ConfigInv, FailInv
  <2>5. ConfigStep
    BY <2>3, Zenon DEF ConfigStep
  <2> QED BY <2>4, <2>5
<1>2. CASE New
  <2>1. stage = "checked" /\ cfg' = Defaults(cfg) /\ caFiles' = caFiles
    BY <1>2 DEF New
  <2>2. stage' = IF Valid(cfg', caFiles) THEN "dialers" ELSE "failed"
    BY <1>2 DEF New
  <2>3. Normal(cfg) /\ cfg \in Config /\ Valid(cfg, PEMFiles)
    BY <2>1 DEF ConfigInv
  <2>4. cfg'.upstreams = cfg.upstreams /\ cfg'.inbounds = cfg.inbounds
    BY <2>1, <2>3, NormalKept
  <2>5. WithoutURL(cfg') = WithoutURL(cfg)
    BY <2>1, <2>3 DEF Normal
  <2>6. (\A k \in cfg.kboard : PublicURL(k.publicURL) = k.publicURL) => cfg' = cfg
    BY <2>1, <2>3, SettledFixed
  <2>7. ConfigStep
    BY <2>1, <2>4, <2>5, <2>6, Zenon DEF ConfigStep
  <2>8. ConfigInv'
    <3>1. cfg' \in Config /\ Normal(cfg')
      BY <2>1, <2>3, DefaultsStable DEF Normal
    <3>2. Normal(cfg)' <=> Normal(cfg')
      BY DEF Normal
    <3>3. Valid(cfg', caFiles) => Valid(cfg', PEMFiles)
      BY ValidMonotone, Zenon DEF ConfigInv
    <3> QED BY <2>1, <2>2, <3>1, <3>2, <3>3 DEF ConfigInv
  <2>9. FailInv'
    <3>1. ~Valid(cfg', caFiles) =>
            \/ \E u \in Range(cfg.upstreams) : u.caFile # "" /\ u.caFile \notin caFiles
            \/ \E k \in cfg'.kboard : ~PublicURLValid(k)
      BY <2>1, <2>3, Revalidation, Zenon
    <3>2. Upstreams' = Range(cfg.upstreams)
      BY <2>4 DEF Upstreams
    <3> QED BY <2>1, <2>2, <3>1, <3>2, Zenon DEF FailInv
  <2> QED BY <2>7, <2>8, <2>9
<1>3. CASE NewUpstreamDialer
  <2> DEFINE u == cfg.upstreams[next]
  <2>1. /\ stage = "dialers" /\ cfg' = cfg /\ caFiles' = caFiles
        /\ next <= Len(cfg.upstreams)
    BY <1>3 DEF NewUpstreamDialer
  <2>2. Normal(cfg) /\ cfg \in Config /\ Valid(cfg, PEMFiles)
    BY <2>1 DEF ConfigInv
  <2>3. next \in DOMAIN cfg.upstreams
    BY <2>1, <2>2, ListsTyped DEF PlaceInv
  <2>4. UpstreamDefaults(u) = u /\ UpstreamValid(u, PEMFiles) /\ u \in Upstreams
    <3>1. UpstreamDefaults(u) = u
      BY <2>2, <2>3, NormalLists
    <3>2. UpstreamValid(u, PEMFiles)
      BY <2>2, <2>3, Zenon DEF Valid
    <3>3. u \in Upstreams
      BY <2>3, Zenon DEF Upstreams, Range
    <3> QED BY <3>1, <3>2, <3>3
  <2>5. (UpstreamValid(u, caFiles) /\ stage' = stage) \/ (~UpstreamValid(u, caFiles) /\ stage' = "failed")
    BY <1>3, <2>4 DEF NewUpstreamDialer
  <2>6. ~UpstreamValid(u, caFiles) => u.caFile # "" /\ u.caFile \notin caFiles
    BY <2>4, UpstreamNeedsFile, Zenon
  <2>7. Upstreams' = Upstreams
    BY <2>1 DEF Upstreams
  <2> HIDE DEF u
  <2>8. FailInv'
    BY <2>1, <2>4, <2>5, <2>6, <2>7 DEF FailInv
  <2>9. ConfigInv'
    BY <2>1, <2>2, <2>5 DEF ConfigInv, Normal
  <2> QED BY <1>0, <2>1, <2>8, <2>9
<1>4. CASE NewServerRelay
  <2> DEFINE i == cfg.inbounds[next]
  <2>1. /\ stage = "relays" /\ cfg' = cfg /\ caFiles' = caFiles
        /\ next <= Len(cfg.inbounds) /\ i.mode = "kless-server"
    BY <1>4 DEF NewServerRelay
  <2>2. /\ Length[i.kless.signingPrivate] = 64
        /\ \A e \in Range(StaticCredentials(i.kless)) : Decodes(e.secret)
    BY <2>1, NextServerSound DEF NextIsServer
  <2>3. stage' = stage
    BY <1>4, <2>2 DEF NewServerRelay
  <2>4. ConfigInv' /\ FailInv'
    BY <2>1, <2>3 DEF ConfigInv, FailInv, Normal, Upstreams
  <2> QED BY <1>0, <2>1, <2>4
<1>5. CASE DialersBuilt \/ NoRelay \/ RelaysBuilt
  <2>1. /\ stage \in {"dialers", "relays"} /\ stage' \in {"relays", "built"}
        /\ UNCHANGED <<cfg, caFiles>>
    BY <1>5 DEF DialersBuilt, NoRelay, RelaysBuilt
  <2>2. ConfigInv' /\ FailInv'
    BY <2>1 DEF ConfigInv, FailInv, Normal
  <2> QED BY <1>0, <2>1, <2>2
<1>6. CASE FileGoes
  <2>1. caFiles' \subseteq caFiles /\ UNCHANGED <<cfg, stage>>
    BY <1>6 DEF FileGoes
  <2>2. ConfigInv'
    BY <2>1 DEF ConfigInv, Normal
  <2>3. FailInv'
    BY <2>1, Zenon DEF FailInv, Upstreams
  <2> QED BY <1>0, <2>1, <2>2, <2>3
<1>7. CASE UNCHANGED vars
  <2>1. UNCHANGED <<cfg, stage, caFiles>>
    BY <1>7 DEF vars
  <2>2. ConfigInv'
    BY <2>1 DEF ConfigInv, Normal
  <2>3. FailInv'
    BY <2>1, Zenon DEF FailInv, Upstreams
  <2> QED BY <1>0, <2>1, <2>2, <2>3
<1> QED
  BY <1>1, <1>2, <1>3, <1>4, <1>5, <1>6, <1>7 DEF Next, Terminated

\* The turn passes from one upstream, and then from one inbound, to the next.
LEMMA PlaceNext == Inv /\ [Next]_vars => PlaceInv'
<1> SUFFICES ASSUME Inv, [Next]_vars PROVE PlaceInv'
  OBVIOUS
<1> DEFINE U == Len(cfg.upstreams)
           I == Len(cfg.inbounds)
<1>1. U \in Nat /\ I \in Nat
  BY ListsTyped DEF Inv, ConfigInv
<1>2. next \in 1..(U + I + 1)
  BY DEF Inv, PlaceInv
<1>3. CASE Load
  <2>1. Len(cfg'.upstreams) = U /\ Len(cfg'.inbounds) = I
    BY <1>3, DefaultsStable DEF Load, Inv, ConfigInv
  <2>2. next = 1 /\ next' = next /\ stage' \in {"checked", "refused"}
    BY <1>3 DEF Load, Inv, PlaceInv
  <2>3. next' \in 1..(Len(cfg'.upstreams) + Len(cfg'.inbounds) + 1)
    BY <1>2, <2>1, <2>2
  <2> QED BY <2>2, <2>3 DEF PlaceInv
<1>4. CASE stage # "read"
  <2>1. Len(cfg'.upstreams) = U /\ Len(cfg'.inbounds) = I
    BY <1>4, ConfigNext DEF ConfigStep
  <2> HIDE DEF U, I
  <2>2. /\ stage \in {"checked", "refused"} => next = 1
        /\ stage = "dialers" => next <= U + 1
        /\ stage = "relays" => next <= I + 1
        /\ stage = "built" => next = I + 1
    BY <1>4, Zenon DEF Inv, PlaceInv, U, I
  <2>3. /\ next' \in 1..(U + I + 1)
        /\ stage' \in {"read", "checked", "refused"} => next' = 1
        /\ stage' = "dialers" => next' <= U + 1
        /\ stage' = "relays" => next' <= I + 1
        /\ stage' = "built" => next' = I + 1
    <3>1. CASE New
      <4>1. next = 1 /\ next' = next /\ stage' \in {"dialers", "failed"}
        BY <1>4, <2>2, <3>1 DEF New
      <4> QED BY <1>1, <1>2, <4>1
    <3>2. CASE NewUpstreamDialer
      <4>1. /\ stage = "dialers" /\ next <= U
            /\ \/ next' = next + 1 /\ stage' = stage
               \/ next' = next /\ stage' = "failed"
        BY <3>2 DEF NewUpstreamDialer, U
      <4>2. next \in 1..(U + I + 1) /\ next + 1 \in 1..(U + I + 1) /\ next + 1 <= U + 1
        BY <1>1, <1>2, <4>1
      <4> QED BY <4>1, <4>2
    <3>3. CASE DialersBuilt
      <4>1. stage' = "relays" /\ next' = 1
        BY <3>3 DEF DialersBuilt
      <4>2. 1 \in 1..(U + I + 1) /\ 1 <= I + 1
        BY <1>1
      <4> QED BY <4>1, <4>2
    <3>4. CASE NewServerRelay
      <4>1. /\ stage = "relays" /\ next <= I
            /\ \/ next' = next + 1 /\ stage' = stage
               \/ next' = next /\ stage' = "failed"
        BY <3>4 DEF NewServerRelay, I
      <4>2. next \in 1..(U + I + 1) /\ next + 1 \in 1..(U + I + 1) /\ next + 1 <= I + 1
        BY <1>1, <1>2, <4>1
      <4> QED BY <4>1, <4>2
    <3>5. CASE NoRelay
      <4>1. stage = "relays" /\ next <= I /\ next' = next + 1 /\ stage' = stage
        BY <3>5 DEF NoRelay, I
      <4>2. next + 1 \in 1..(U + I + 1) /\ next + 1 <= I + 1
        BY <1>1, <1>2, <4>1
      <4> QED BY <4>1, <4>2
    <3>6. CASE RelaysBuilt
      <4>1. stage = "relays" /\ next > I /\ next' = next /\ stage' = "built"
        BY <3>6 DEF RelaysBuilt, I
      <4>2. next = I + 1
        BY <1>1, <1>2, <2>2, <4>1
      <4> QED BY <1>2, <4>1, <4>2
    <3>7. CASE FileGoes \/ UNCHANGED vars
      <4>1. next' = next /\ stage' = stage
        BY <3>7 DEF FileGoes, vars
      <4> QED BY <1>2, <1>4, <2>2, <4>1
    <3> QED
      BY <1>4, <3>1, <3>2, <3>3, <3>4, <3>5, <3>6, <3>7 DEF Next, Terminated, Load
  <2> QED BY <2>1, <2>3, Zenon DEF PlaceInv
<1>5. CASE UNCHANGED vars
  BY <1>5 DEF vars, Inv, PlaceInv
<1>6. CASE FileGoes
  BY <1>6 DEF FileGoes, Inv, PlaceInv
<1>7. stage = "read" => Load \/ FileGoes \/ UNCHANGED vars
  BY DEF Next, Terminated, New, NewUpstreamDialer, DialersBuilt, NewServerRelay,
         NoRelay, RelaysBuilt
<1> QED BY <1>3, <1>4, <1>5, <1>6, <1>7

LEMMA DialerNext == Inv /\ [Next]_vars => DialerInv'
<1> SUFFICES ASSUME Inv, [Next]_vars PROVE DialerInv'
  OBVIOUS
<1> USE DEF Inv
<1>1. CASE stage = "read"
  <2>1. stage' \in {"read", "checked", "refused"} /\ dialers' = dialers
    BY <1>1 DEF Next, Load, FileGoes, Terminated, New, NewUpstreamDialer, DialersBuilt,
         NewServerRelay, NoRelay, RelaysBuilt, vars
  <2>2. dialers = Empty
    BY <1>1 DEF DialerInv
  <2> QED BY <2>1, <2>2 DEF DialerInv, Empty
<1>2. CASE stage # "read"
  <2>1. cfg'.upstreams = cfg.upstreams /\ Upstreams' = Upstreams
    BY <1>2, ConfigNext DEF Upstreams, ConfigStep
  <2>2. /\ next \in Int
        /\ \A n \in DOMAIN cfg.upstreams : n \in Int /\ 1 <= n /\ n <= Len(cfg.upstreams)
    BY ListsTyped DEF ConfigInv, PlaceInv
  <2>3. CASE New
    <3>1. stage = "checked" /\ next = 1 /\ next' = 1 /\ dialers = Empty /\ dialers' = Empty
          /\ stage' \in {"dialers", "failed"}
      BY <2>3 DEF New, DialerInv, PlaceInv
    <3>2. \A n \in DOMAIN cfg.upstreams : ~(n < 1)
      BY <2>2
    <3> QED BY <2>1, <3>1, <3>2 DEF DialerInv, Empty
  <2>4. CASE NewUpstreamDialer
    <3> DEFINE u == cfg.upstreams[next]
    <3>1. /\ stage = "dialers" /\ next \in DOMAIN cfg.upstreams
          /\ UpstreamDefaults(u) = u /\ u \in Upstreams
      <4>1. stage = "dialers" /\ next <= Len(cfg.upstreams)
        BY <2>4 DEF NewUpstreamDialer
      <4>2. Normal(cfg) /\ cfg \in Config
        BY <4>1 DEF ConfigInv
      <4>3. next \in DOMAIN cfg.upstreams
        BY <4>1, <4>2, ListsTyped DEF PlaceInv
      <4>4. UpstreamDefaults(u) = u
        BY <4>2, <4>3, NormalLists
      <4>5. u \in Upstreams
        BY <4>3, Zenon DEF Upstreams, Range
      <4> QED BY <4>1, <4>3, <4>4, <4>5
    <3>2. CASE UpstreamValid(u, caFiles)
      <4>1. /\ dialers' = Assign(dialers, One(u.name, u))
            /\ next' = next + 1 /\ stage' = "dialers"
        BY <2>4, <3>1, <3>2 DEF NewUpstreamDialer
      <4> HIDE DEF u
      <4>2. \A n \in DOMAIN cfg.upstreams : n < next' => n < next \/ n = next
        BY <2>2, <4>1
      <4>3. \A n \in DOMAIN cfg.upstreams : n < next => cfg.upstreams[n].name \in DOMAIN dialers
        BY <3>1 DEF DialerInv
      <4>4. /\ DOMAIN dialers' = {u.name} \cup DOMAIN dialers
            /\ dialers'[u.name] = u
            /\ \A x \in DOMAIN dialers : x # u.name => dialers'[x] = dialers[x]
        BY <4>1 DEF Assign, One
      <4>5. ASSUME NEW name \in DOMAIN dialers'
            PROVE  dialers'[name] \in Upstreams /\ dialers'[name].name = name
        <5>1. CASE name = u.name
          <6>1. dialers'[name] = u
            BY <4>4, <5>1, Zenon
          <6> QED BY <3>1, <5>1, <6>1
        <5>2. CASE name # u.name
          <6>1. name \in DOMAIN dialers /\ dialers'[name] = dialers[name]
            BY <4>4, <5>2, Zenon
          <6> QED BY <6>1 DEF DialerInv
        <5> QED BY <5>1, <5>2
      <4>6. \A n \in DOMAIN cfg.upstreams : n < next' => cfg.upstreams[n].name \in DOMAIN dialers'
        BY <4>2, <4>3, <4>4 DEF u
      <4>7. \A name \in DOMAIN dialers' :
                dialers'[name] \in Upstreams /\ dialers'[name].name = name
        BY <4>5
      <4> QED BY <2>1, <4>1, <4>6, <4>7 DEF DialerInv
    <3>3. CASE ~UpstreamValid(u, caFiles)
      <4>1. dialers' = dialers /\ stage' = "failed"
        BY <2>4, <3>1, <3>3 DEF NewUpstreamDialer
      <4> QED BY <2>1, <4>1 DEF DialerInv
    <3> QED BY <3>2, <3>3
  <2>5. CASE DialersBuilt
    <3>1. stage = "dialers" /\ stage' = "relays" /\ next > Len(cfg.upstreams)
          /\ dialers' = dialers
      BY <2>5 DEF DialersBuilt
    <3>2. Len(cfg.upstreams) \in Nat
      BY ListsTyped DEF ConfigInv
    <3>3. \A n \in DOMAIN cfg.upstreams : n < next
      BY <2>2, <3>1, <3>2
    <3> QED BY <2>1, <3>1, <3>3 DEF DialerInv
  <2>6. CASE NewServerRelay \/ NoRelay \/ RelaysBuilt
    <3>1. stage = "relays" /\ stage' \in {"relays", "built", "failed"} /\ dialers' = dialers
      BY <2>6 DEF NewServerRelay, NoRelay, RelaysBuilt
    <3> QED BY <2>1, <3>1 DEF DialerInv
  <2>7. CASE FileGoes \/ UNCHANGED vars
    <3>1. UNCHANGED <<stage, next, dialers>>
      BY <2>7 DEF FileGoes, vars
    <3> QED BY <2>1, <3>1 DEF DialerInv
  <2> QED
    BY <1>2, <2>3, <2>4, <2>5, <2>6, <2>7 DEF Next, Terminated, Load
<1> QED BY <1>1, <1>2

\* No relay of a validated configuration is refused.
LEMMA ServersSucceed ==
    ASSUME Inv, [Next]_vars, stage = "relays"
    PROVE  stage' \in {"relays", "built"}
<1>1. CASE NewServerRelay
  <2> DEFINE i == cfg.inbounds[next]
  <2>1. NextIsServer
    BY <1>1 DEF NewServerRelay, NextIsServer
  <2>2. /\ Length[i.kless.signingPrivate] = 64
        /\ \A e \in Range(StaticCredentials(i.kless)) : Decodes(e.secret)
    BY <2>1, NextServerSound DEF Inv
  <2> QED BY <1>1, <2>2 DEF NewServerRelay
<1>2. CASE ~NewServerRelay
  BY <1>2 DEF Next, Load, New, NewUpstreamDialer, DialersBuilt, NoRelay, RelaysBuilt,
              FileGoes, Terminated, vars
<1> QED BY <1>1, <1>2

\* What a turn at the inbounds does, in the terms of the invariants.
LEMMA ServedGrows ==
    ASSUME Inv, [Next]_vars, stage = "relays", stage' \in {"relays", "built"}
    PROVE  LET i == cfg.inbounds[next] IN
           \/ /\ NextIsServer
              /\ stage' = "relays" /\ Served' = Served \cup {i}
              /\ relays' = Assign(relays, One(i.name, i))
              /\ store' = AddStatic(store, StaticCredentials(i.kless))
           \/ Served' = Served /\ relays' = relays /\ store' = store
<1> DEFINE i == cfg.inbounds[next]
<1>1. cfg' = cfg
  BY ConfigNext DEF ConfigStep
<1>2. next \in Int /\ \A n \in DOMAIN cfg.inbounds : n \in Int
  BY ListsTyped DEF Inv, ConfigInv, PlaceInv
<1>3. CASE next' = next
  <2>1. Served' = Served
    BY <1>1, <1>3 DEF Served
  <2>2. relays' = relays /\ store' = store
    <3>1. ~NewServerRelay
      BY <1>2, <1>3 DEF NewServerRelay
    <3> QED BY <3>1 DEF Next, Load, New, NewUpstreamDialer, DialersBuilt, NoRelay,
               RelaysBuilt, FileGoes, Terminated, vars
  <2> QED BY <2>1, <2>2
<1>4. CASE next' # next
  <2>1. next' = next + 1 /\ next <= Len(cfg.inbounds) /\ (NewServerRelay \/ NoRelay)
    BY <1>4 DEF Next, Load, New, NewUpstreamDialer, DialersBuilt, NewServerRelay, NoRelay,
                RelaysBuilt, FileGoes, Terminated, vars
  <2>2. next \in DOMAIN cfg.inbounds
    BY <2>1, ListsTyped DEF Inv, ConfigInv, PlaceInv
  <2>3. \A n \in DOMAIN cfg.inbounds : n < next' <=> n < next \/ n = next
    BY <1>2, <2>1
  <2>4. Served' = {cfg.inbounds[n] : n \in {m \in DOMAIN cfg.inbounds :
                        (m < next \/ m = next) /\ cfg.inbounds[m].mode = "kless-server"}}
    BY <1>1, <2>3, Zenon DEF Served
  <2>5. CASE NewServerRelay
    <3>1. i.mode = "kless-server" /\ NextIsServer
      BY <2>1, <2>5 DEF NewServerRelay, NextIsServer
    <3>2. Served' = Served \cup {i}
      BY <2>2, <2>4, <3>1 DEF Served
    <3>3. /\ relays' = Assign(relays, One(i.name, i))
          /\ store' = AddStatic(store, StaticCredentials(i.kless))
          /\ stage' = "relays"
      BY <1>2, <2>1, <2>5 DEF NewServerRelay
    <3> QED BY <3>1, <3>2, <3>3
  <2>6. CASE NoRelay
    <3>1. i.mode # "kless-server" /\ relays' = relays /\ store' = store
      BY <2>6 DEF NoRelay
    <3>2. Served' = Served
      BY <2>4, <3>1 DEF Served
    <3> QED BY <3>1, <3>2
  <2> QED BY <2>1, <2>5, <2>6
<1> QED BY <1>3, <1>4

\* Outside of the turns of the inbounds no relay is made.
LEMMA NoRelayYet == Inv /\ [Next]_vars /\ stage # "relays" =>
                        /\ UNCHANGED <<relays, store>>
                        /\ stage' \in {"relays", "built"} =>
                            (stage = "dialers" /\ next' = 1) \/ (stage' = stage /\ next' = next)
BY DEF Next, Load, New, NewUpstreamDialer, DialersBuilt, NewServerRelay, NoRelay,
       RelaysBuilt, FileGoes, Terminated, vars

\* Before the first turn of an inbound, nothing is served.
LEMMA NothingServed == Inv /\ [Next]_vars /\ stage = "dialers" /\ next' = 1 => Served' = {}
<1> SUFFICES ASSUME Inv, [Next]_vars, stage = "dialers", next' = 1 PROVE Served' = {}
  OBVIOUS
<1>1. cfg' = cfg
  BY ConfigNext DEF ConfigStep
<1>2. \A n \in DOMAIN cfg.inbounds : ~(n < 1)
  BY ListsTyped DEF Inv, ConfigInv
<1> QED BY <1>1, <1>2 DEF Served

LEMMA RelayNext == Inv /\ [Next]_vars => RelayInv'
<1> SUFFICES ASSUME Inv, [Next]_vars PROVE RelayInv'
  OBVIOUS
<1>1. CASE stage # "relays"
  <2>1. relays' = relays
    BY <1>1, NoRelayYet
  <2>2. CASE stage' \notin {"relays", "built"}
    <3>1. relays = Empty
      <4>1. stage # "built"
        BY <2>2 DEF Next, Load, New, NewUpstreamDialer, DialersBuilt, NewServerRelay, NoRelay,
                    RelaysBuilt, FileGoes, Terminated, vars
      <4> QED BY <1>1, <4>1 DEF Inv, RelayInv
    <3> QED BY <2>1, <2>2, <3>1 DEF RelayInv, Empty
  <2>3. CASE stage = "dialers" /\ next' = 1
    <3>1. Served' = {}
      BY <2>3, NothingServed
    <3>2. relays = Empty
      BY <2>3 DEF Inv, RelayInv
    <3> QED BY <2>1, <3>1, <3>2 DEF RelayInv, Empty
  <2>4. CASE stage' \in {"relays", "built"} /\ stage' = stage /\ next' = next
    <3>1. cfg' = cfg
      BY <2>4, ConfigNext DEF ConfigStep
    <3>2. Served' = Served /\ Servers' = Servers
      BY <2>4, <3>1 DEF Served, Servers
    <3> QED BY <2>1, <2>4, <3>2 DEF Inv, RelayInv
  <2> QED BY <1>1, <2>2, <2>3, <2>4, NoRelayYet
<1>2. CASE stage = "relays"
  <2>1. cfg' = cfg /\ Servers' = Servers
    BY <1>2, ConfigNext DEF ConfigStep, Servers
  <2>2. stage' \in {"relays", "built"}
    BY <1>2, ServersSucceed
  <2>3. CASE Served' = Served /\ relays' = relays
    BY <1>2, <2>1, <2>2, <2>3 DEF Inv, RelayInv
  <2>4. CASE ~(Served' = Served /\ relays' = relays)
    <3> DEFINE i == cfg.inbounds[next]
    <3>1. /\ NextIsServer /\ Served' = Served \cup {i}
          /\ relays' = Assign(relays, One(i.name, i))
      BY <1>2, <2>2, <2>4, ServedGrows
    <3>2. i \in Servers
      <4>1. next \in DOMAIN cfg.inbounds
        BY <3>1, NextServerSound DEF Inv
      <4> QED BY <3>1, <4>1 DEF NextIsServer, Servers, Range
    <3> HIDE DEF i
    <3>3. /\ DOMAIN relays' = {i.name} \cup DOMAIN relays
          /\ relays'[i.name] = i
          /\ \A x \in DOMAIN relays : x # i.name => relays'[x] = relays[x]
      BY <3>1 DEF Assign, One
    <3>4. /\ \A name \in DOMAIN relays : relays[name] \in Servers /\ relays[name].name = name
          /\ \A s \in Served : s.name \in DOMAIN relays
      BY <1>2 DEF Inv, RelayInv
    <3>5. \A name \in DOMAIN relays' : relays'[name] \in Servers /\ relays'[name].name = name
      BY <3>2, <3>3, <3>4, Zenon
    <3>6. \A s \in Served' : s.name \in DOMAIN relays'
      BY <3>1, <3>3, <3>4, Zenon
    <3> QED BY <2>1, <2>2, <3>5, <3>6, Zenon DEF RelayInv
  <2> QED BY <2>3, <2>4
<1> QED BY <1>1, <1>2

LEMMA StoreNext == Inv /\ [Next]_vars => StoreInv'
<1> SUFFICES ASSUME Inv, [Next]_vars PROVE StoreInv'
  OBVIOUS
<1>1. CASE stage # "relays"
  <2>1. store' = store
    BY <1>1, NoRelayYet
  <2>2. CASE stage' \notin {"relays", "built"}
    <3>1. store = Empty
      <4>1. stage # "built"
        BY <2>2 DEF Next, Load, New, NewUpstreamDialer, DialersBuilt, NewServerRelay, NoRelay,
                    RelaysBuilt, FileGoes, Terminated, vars
      <4> QED BY <1>1, <4>1 DEF Inv, StoreInv
    <3> QED BY <2>1, <2>2, <3>1 DEF StoreInv, Empty
  <2>3. CASE stage = "dialers" /\ next' = 1
    <3>1. Given' = {}
      BY <2>3, NothingServed DEF Given
    <3>2. store = Empty
      BY <2>3 DEF Inv, StoreInv
    <3> QED BY <2>1, <3>1, <3>2 DEF StoreInv, Empty
  <2>4. CASE stage' \in {"relays", "built"} /\ stage' = stage /\ next' = next
    <3>1. cfg' = cfg
      BY <2>4, ConfigNext DEF ConfigStep
    <3>2. Given' = Given
      BY <2>4, <3>1 DEF Served, Given
    <3> QED BY <2>1, <2>4, <3>2 DEF Inv, StoreInv
  <2> QED BY <1>1, <2>2, <2>3, <2>4, NoRelayYet
<1>2. CASE stage = "relays"
  <2>1. stage' \in {"relays", "built"}
    BY <1>2, ServersSucceed
  <2>2. CASE Served' = Served /\ store' = store
    <3>1. Given' = Given
      BY <2>2 DEF Given
    <3> QED BY <1>2, <2>1, <2>2, <3>1 DEF Inv, StoreInv
  <2>3. CASE ~(Served' = Served /\ store' = store)
    <3> DEFINE i == cfg.inbounds[next]
               s == StaticCredentials(i.kless)
               m == CredentialMap(s)
    <3>1. NextIsServer /\ Served' = Served \cup {i} /\ store' = Assign(store, m)
      BY <1>2, <2>1, <2>3, ServedGrows DEF AddStatic
    <3>2. /\ s \in Seq(ServerKLESSClientConfig)
          /\ \A e \in Range(s) : Trim[e.id] # "" /\ Length[e.secret] > 0
      BY <3>1, NextServerSound DEF Inv
    <3>3. Given' = Given \cup Range(s)
      BY <3>1 DEF Given
    <3> HIDE DEF s
    <3>4. /\ DOMAIN m = {Trim[e.id] : e \in Range(s)}
          /\ \A id \in DOMAIN m : \E e \in Range(s) : Trim[e.id] = id /\ m[id] = e.secret
      BY <3>2, CredentialMapCorrect
    <3> HIDE DEF m
    <3>5. /\ DOMAIN store = {Trim[e.id] : e \in Given}
          /\ \A id \in DOMAIN store : \E e \in Given : Trim[e.id] = id /\ store[id] = e.secret
      BY <1>2 DEF Inv, StoreInv
    <3>6. /\ DOMAIN store' = DOMAIN m \cup DOMAIN store
          /\ \A id \in DOMAIN m : store'[id] = m[id]
          /\ \A id \in DOMAIN store : id \notin DOMAIN m => store'[id] = store[id]
      BY <3>1 DEF Assign
    <3>7. DOMAIN store' = {Trim[e.id] : e \in Given'}
      BY <3>3, <3>4, <3>5, <3>6
    <3>8. ASSUME NEW id \in DOMAIN store'
          PROVE  \E e \in Given' : Trim[e.id] = id /\ store'[id] = e.secret
      <4>1. CASE id \in DOMAIN m
        BY <3>3, <3>4, <3>6, <4>1
      <4>2. CASE id \notin DOMAIN m
        <5>1. id \in DOMAIN store /\ store'[id] = store[id]
          BY <3>6, <4>2
        <5> QED BY <3>3, <3>5, <5>1
      <4> QED BY <4>1, <4>2
    <3> QED BY <2>1, <3>7, <3>8, Zenon DEF StoreInv
  <2> QED BY <2>2, <2>3
<1> QED BY <1>1, <1>2

-----------------------------------------------------------------------------
(* What the invariant means for the properties *)

LEMMA ServersSound ==
    ASSUME ConfigInv, stage \notin {"read", "refused", "failed"}, NEW i \in Servers
    PROVE  /\ StaticCredentials(i.kless) \in Seq(ServerKLESSClientConfig)
           /\ \A e \in Range(StaticCredentials(i.kless)) : Length[e.secret] >= 32
           /\ \/ StaticCredentials(i.kless) # <<>>
              \/ \E k \in cfg.kboard : k.usersEndpoint # ""
<1> DEFINE upstreams == {cfg.upstreams[n].name : n \in DOMAIN cfg.upstreams}
           dynamicUsers == \E k \in cfg.kboard : k.usersEndpoint # ""
<1>1. Normal(cfg) /\ cfg \in Config /\ Valid(cfg, PEMFiles)
  BY DEF ConfigInv
<1>2. PICK n \in DOMAIN cfg.inbounds : i = cfg.inbounds[n]
  BY DEF Servers, Range
<1>3. i \in InboundConfig /\ InboundNormal(i) = i /\ i.mode = "kless-server"
  BY <1>1, <1>2, ListsTyped, NormalLists DEF Servers
<1>4. InboundValid(i, upstreams, dynamicUsers)
  BY <1>1, <1>2, Zenon DEF Valid
<1> HIDE DEF upstreams
<1> QED BY <1>3, <1>4, CredentialsSound, Zenon

\* Of the credentials that were given, each has its types.
LEMMA GivenTyped ==
    ASSUME ConfigInv, stage \notin {"read", "refused", "failed"}
    PROVE  \A e \in Given : Trim[e.id] \in Texts /\ e.secret \in Keys
<1> SUFFICES ASSUME NEW e \in Given PROVE Trim[e.id] \in Texts /\ e.secret \in Keys
  OBVIOUS
<1>1. PICK i \in Served : e \in Range(StaticCredentials(i.kless))
  BY DEF Given
<1>2. i \in Servers
  BY DEF Served, Servers, Range
<1>3. StaticCredentials(i.kless) \in Seq(ServerKLESSClientConfig)
  BY <1>2, ServersSound
<1>4. e \in ServerKLESSClientConfig
  BY <1>1, <1>3, RangeOfSeq
<1> QED BY <1>4, TextAssumption DEF ServerKLESSClientConfig, Texts

\* When New has returned, every kless-server inbound has had its turn.
LEMMA AllServed ==
    ASSUME ConfigInv, PlaceInv, stage = "built"
    PROVE  Served = Servers
<1>1. \A n \in DOMAIN cfg.inbounds : n < next
  BY ListsTyped DEF ConfigInv, PlaceInv
<1> QED BY <1>1 DEF Served, Servers, Range

LEMMA TypesHold == Inv => TypeOK
<1> SUFFICES ASSUME Inv PROVE TypeOK
  OBVIOUS
<1>1. \A id \in DOMAIN store : id \in DOMAIN Trim /\ store[id] \in DOMAIN Length
  <2>1. CASE stage \notin {"relays", "built"}
    BY <2>1 DEF Inv, StoreInv, Empty
  <2>2. CASE stage \in {"relays", "built"}
    <3>1. \A e \in Given : Trim[e.id] \in DOMAIN Trim /\ e.secret \in DOMAIN Length
      BY <2>2, GivenTyped DEF Inv, Texts, Keys
    <3>2. \A id \in DOMAIN store :
            \E e \in Given : Trim[e.id] = id /\ store[id] = e.secret
      BY <2>2 DEF Inv, StoreInv
    <3> QED BY <3>1, <3>2
  <2> QED BY <2>1, <2>2
<1> QED BY <1>1, Zenon DEF Inv, ConfigInv, Normal, PlaceInv, DialerInv, RelayInv, TypeOK

LEMMA ConfigRuns == Inv => CheckedConfigRuns
<1> SUFFICES ASSUME Inv PROVE CheckedConfigRuns
  OBVIOUS
<1>1. stage = "failed" =>
        \/ \E u \in Upstreams : u.caFile # "" /\ u.caFile \notin caFiles
        \/ \E k \in cfg.kboard : ~PublicURLValid(k)
  BY Zenon DEF Inv, FailInv
<1>2. ASSUME stage = "built", NEW i \in Range(cfg.inbounds)
      PROVE  IF i.mode = "kless-server" THEN i.name \in DOMAIN relays /\ relays[i.name] = i
             ELSE i.upstream \in DOMAIN dialers
  <2>1. Valid(cfg, PEMFiles)
    BY <1>2 DEF Inv, ConfigInv
  <2>2. PICK n \in DOMAIN cfg.inbounds : i = cfg.inbounds[n]
    BY <1>2 DEF Range
  <2>3. CASE i.mode = "kless-server"
    <3>1. i \in Servers
      BY <1>2, <2>3 DEF Servers
    <3>2. i.name \in DOMAIN relays
      BY <1>2, <3>1, AllServed DEF Inv, RelayInv
    <3>3. relays[i.name] \in Range(cfg.inbounds) /\ relays[i.name].name = i.name
      BY <3>2 DEF Inv, RelayInv, Servers
    <3>4. PICK m \in DOMAIN cfg.inbounds : relays[i.name] = cfg.inbounds[m]
      BY <3>3 DEF Range
    <3>5. cfg.inbounds[m].name = cfg.inbounds[n].name
      BY <2>2, <3>3, <3>4
    <3>6. m = n
      BY <2>1, <3>5, Zenon DEF Valid, NamesDiffer
    <3> QED BY <2>2, <2>3, <3>2, <3>4, <3>6
  <2>4. CASE i.mode # "kless-server"
    <3>1. i.upstream \in {cfg.upstreams[m].name : m \in DOMAIN cfg.upstreams}
      BY <2>1, <2>2, <2>4, Zenon DEF Valid, InboundValid
    <3>2. \A m \in DOMAIN cfg.upstreams : cfg.upstreams[m].name \in DOMAIN dialers
      BY <1>2 DEF Inv, DialerInv
    <3> QED BY <2>4, <3>1, <3>2
  <2> QED BY <2>3, <2>4
<1>3. ASSUME stage = "built", NEW name \in DOMAIN dialers
      PROVE  ClientConfigBuilds(dialers[name])
  <2> DEFINE u == dialers[name]
  <2>1. cfg \in Config /\ Valid(cfg, PEMFiles)
    BY <1>3 DEF Inv, ConfigInv
  <2>2. PICK n \in DOMAIN cfg.upstreams : u = cfg.upstreams[n]
    BY <1>3 DEF Inv, DialerInv, Upstreams, Range
  <2> HIDE DEF u
  <2>3. UpstreamValid(u, PEMFiles) /\ u \in UpstreamConfig
    <3>1. UpstreamValid(u, PEMFiles)
      BY <2>1, <2>2, Zenon DEF Valid
    <3>2. u \in UpstreamConfig
      BY <2>1, <2>2, ListsTyped
    <3> QED BY <3>1, <3>2
  <2>4. KLESSValid(u.kless, u.transport) /\ DurationsOK(u.durations)
    BY <2>3, Zenon DEF UpstreamValid
  <2>5. /\ Length[u.kless.secret] >= 32 /\ Length[u.kless.signingKey] = 32
        /\ CapabilityMask(u.transport, u.kless.capabilities) # {}
    BY <2>4, Zenon DEF KLESSValid
  <2>6. Length[u.kless.secret] \in Int
    BY <2>3, KeyAssumption DEF UpstreamConfig, KLESSConfig, Keys
  <2>7. Decodes(u.kless.secret) /\ Decodes(u.kless.signingKey)
    BY <2>5, <2>6 DEF Decodes
  <2>8. ClientConfigBuilds(u)
    BY <2>4, <2>5, <2>7, Zenon DEF ClientConfigBuilds
  <2> QED BY <2>8 DEF u
<1> QED BY <1>1, <1>2, <1>3, Zenon DEF CheckedConfigRuns

LEMMA ClientsKnown == Inv => StaticClientsAreKnown
<1> SUFFICES ASSUME Inv, stage = "built"
             PROVE  LET listed(id) == {e.secret : e \in
                            {f \in UNION {Range(StaticCredentials(i.kless)) : i \in Servers} :
                                Trim[f.id] = id}}
                    IN /\ \A id \in DOMAIN Trim : id \in DOMAIN store <=> listed(id) # {}
                       /\ \A id \in DOMAIN store :
                            store[id] \in listed(id) /\ Length[store[id]] >= 32
                       /\ \A i \in Servers :
                            \/ StaticCredentials(i.kless) # <<>>
                            \/ \E k \in cfg.kboard : k.usersEndpoint # ""
  BY Zenon DEF StaticClientsAreKnown
<1>1. Given = UNION {Range(StaticCredentials(i.kless)) : i \in Servers}
  BY AllServed DEF Inv, Given
<1> DEFINE listed(id) == {e.secret : e \in {f \in Given : Trim[f.id] = id}}
<1>2. /\ DOMAIN store = {Trim[e.id] : e \in Given}
      /\ \A id \in DOMAIN store : \E e \in Given : Trim[e.id] = id /\ store[id] = e.secret
  BY DEF Inv, StoreInv
<1>3. \A e \in Given : Length[e.secret] >= 32
  <2>1. \A i \in Servers : \A e \in Range(StaticCredentials(i.kless)) : Length[e.secret] >= 32
    BY ServersSound DEF Inv
  <2> QED BY <1>1, <2>1, Zenon
<1>4. \A id \in DOMAIN Trim : id \in DOMAIN store <=> listed(id) # {}
  BY <1>2
<1>5. \A id \in DOMAIN store : store[id] \in listed(id) /\ Length[store[id]] >= 32
  <2> SUFFICES ASSUME NEW id \in DOMAIN store
               PROVE  store[id] \in listed(id) /\ Length[store[id]] >= 32
    OBVIOUS
  <2>1. PICK e \in Given : Trim[e.id] = id /\ store[id] = e.secret
    BY <1>2
  <2>2. store[id] \in listed(id)
    BY <2>1
  <2>3. Length[store[id]] >= 32
    BY <1>3, <2>1, Zenon
  <2> QED BY <2>2, <2>3
<1>6. \A i \in Servers :
        \/ StaticCredentials(i.kless) # <<>>
        \/ \E k \in cfg.kboard : k.usersEndpoint # ""
  BY ServersSound DEF Inv
<1> QED BY <1>1, <1>4, <1>5, <1>6, Zenon

\* The invariant of Startup: what New builds follows from what was validated.
THEOREM InvCorrect == Spec => []Inv
<1>1. Inv /\ [Next]_vars => Inv'
  BY ConfigNext, PlaceNext, DialerNext, RelayNext, StoreNext DEF Inv
<1> QED BY InitInv, <1>1, PTL DEF Spec

\* Once loaded, a configuration is in its normal form but for Kboard's public
\* URL, and what the service holds was taken from it (New, service.go:43;
\* Validate, config.go:144).
THEOREM TypeCorrect == Spec => []TypeOK
BY InvCorrect, TypesHold, PTL

\* After Load, New and the constructors normalise the configuration again
\* (service.go:44, dialer.go:49) and can change nothing in it but the public URL
\* of Kboard (config.go:583), nor that when trimming leaves the URL alone.
THEOREM OnlyURLChanges ==
    Spec => [][stage # "read" =>
                /\ WithoutURL(cfg') = WithoutURL(cfg)
                /\ (\A k \in cfg.kboard : PublicURL(k.publicURL) = k.publicURL)
                        => cfg' = cfg]_vars
<1>1. Inv /\ [Next]_vars => [stage # "read" =>
                /\ WithoutURL(cfg') = WithoutURL(cfg)
                /\ (\A k \in cfg.kboard : PublicURL(k.publicURL) = k.publicURL)
                        => cfg' = cfg]_vars
  BY ConfigNext DEF ConfigStep
<1> QED BY InvCorrect, <1>1, PTL DEF Spec

\* What `knode check` accepts, `knode run` starts, unless a CA file has gone since
\* or the public URL of Kboard does not survive being normalised once more: the
\* service has a dialer or a relay for each inbound and its dialers can dial
\* (New, service.go:43; ClientConfig, dialer.go:60).
THEOREM CheckedRuns == Spec => []CheckedConfigRuns
BY InvCorrect, ConfigRuns, PTL

\* The store that the kless-server inbounds share knows the clients they list and
\* nobody else, by secrets that were listed and are long enough (AddStatic,
\* client_store.go:66).
THEOREM StaticClientsKnown == Spec => []StaticClientsAreKnown
BY InvCorrect, ClientsKnown, PTL
=============================================================================
