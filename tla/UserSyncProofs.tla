--------------------------- MODULE UserSyncProofs ---------------------------
(***************************************************************************)
(* The client store, its ETag and the attribution of accesses, for every   *)
(* set of clients, of lists and of sessions.                               *)
(***************************************************************************)
EXTENDS UserSync, WellFoundedInduction, TLAPS

\* What is known of the request under way: its list is one of Kboard's, its tag
\* is that of the list or, from a Kboard without ETags, absent.
AnswerInv ==
    /\ list \in Lists
    /\ sync \in [phase : {"idle", "asked", "answered"},
                 kind  : {"none", "304", "200"},
                 list  : Lists \cup {<<>>},
                 body  : (UNION {Bodies(l) : l \in Lists}) \cup {NoBody},
                 tag   : Lists \cup {NoTag}]
    /\ usersETag \in Lists \cup {NoTag}
    /\ SendsETag = {FALSE} => usersETag = NoTag /\ sync.tag = NoTag
    /\ sync.phase = "answered" =>
            /\ sync.list \in Lists
            /\ SendsETag = {TRUE} => sync.tag = sync.list
            /\ IF sync.kind = "304" THEN usersETag = sync.list
               ELSE sync.body \in Bodies(sync.list)

\* A session's client belongs to nobody or to one of the session's owners, and
\* only sessions that were opened have logged anything.
SessionInv ==
    /\ session = [s \in Sessions |-> session[s]]
    /\ owners = [s \in Sessions |-> owners[s]]
    /\ \A s \in Sessions :
            session[s].open => UserID(session[s].client) \in owners[s] \cup {0}
    /\ \A entry \in log :
            entry.session \in Sessions /\ session[entry.session].open
    /\ AttributionIsCurrent
-----------------------------------------------------------------------------
\* No list, no credentials: an empty list of users loads as the empty maps
\* (client_store.go:19-26, 86-100).
LEMMA EmptyMaps == SecretMap(<<>>) = Empty /\ UserMap(<<>>) = Empty
  <1>1. Listed(<<>>) = {}
    BY DEF Listed
  <1>. QED
    BY <1>1 DEF SecretMap, UserMap, Empty

\* Whichever of the two documented forms Kboard writes its list in, the list is
\* what the node reads (UnmarshalJSON, kboard.go:57-75).
LEMMA BodyIsTheList ==
    ASSUME NEW l, NEW body \in Bodies(l)
    PROVE  Unmarshal(body) = l
  <1>. DEFINE parts == [meta : BOOLEAN,
                        users : {{l}} \cup IF l = <<>> THEN {{}} ELSE {}]
              Users(part) == IF part.users = {} THEN <<>>
                             ELSE CHOOSE x \in part.users : TRUE
  <1>1. \/ body.top \in parts /\ body.data = Nothing
        \/ body.top = Nothing /\ body.data \in parts
    BY DEF Bodies
  <1>2. \A part \in parts : Users(part) = l
    <2>. TAKE part \in parts
    <2>1. CASE part.users = {l}
      <3>1. \A x \in part.users : x = l
        BY <2>1
      <3>2. Users(part) = CHOOSE x \in part.users : TRUE
        BY <2>1
      <3>3. (CHOOSE x \in part.users : TRUE) \in part.users
        BY <2>1
      <3>. QED
        BY <3>1, <3>2, <3>3
    <2>2. CASE part.users = {} /\ l = <<>>
      BY <2>2
    <2>. QED
      BY <2>1, <2>2
  <1>3. Unmarshal(body) =
            Users(IF body.top.meta \/ body.top.users # {} THEN body.top ELSE body.data)
    BY DEF Unmarshal
  <1>4. Nothing.meta = FALSE /\ Nothing.users = {}
    BY DEF Nothing
  <1>5. CASE body.top \in parts /\ body.data = Nothing
    <2>1. CASE body.top.meta \/ body.top.users # {}
      BY <1>2, <1>3, <1>5, <2>1
    <2>2. CASE ~(body.top.meta \/ body.top.users # {})
      <3>1. l = <<>>
        BY <1>5, <2>2
      <3>2. Users(body.data) = <<>>
        BY <1>4, <1>5
      <3>. QED
        BY <1>3, <2>2, <3>1, <3>2
    <2>. QED
      BY <2>1, <2>2
  <1>6. CASE body.top = Nothing /\ body.data \in parts
    BY <1>2, <1>3, <1>4, <1>6
  <1>. QED
    BY <1>1, <1>5, <1>6

\* The answer under way and the ETag stay consistent with each other
\* (kboard.go:120-145, 237-268).
THEOREM AnswerCorrect == Spec => []AnswerInv
  <1>1. Init => AnswerInv
    BY NameAssumption DEF Init, AnswerInv, Idle
  <1>2. AnswerInv /\ [Next]_vars => AnswerInv'
    <2>. SUFFICES ASSUME AnswerInv, [Next]_vars PROVE AnswerInv'
      OBVIOUS
    <2>0. NoTag \notin Lists /\ SendsETag \in {{TRUE}, {FALSE}}
      BY NameAssumption
    <2>1. ASSUME NEW l \in Lists, ListChanges(l) PROVE AnswerInv'
      BY <2>1 DEF AnswerInv, ListChanges
    <2>2. CASE Ask
      BY <2>2 DEF AnswerInv, Ask
    <2>3. CASE Answer
      <3>1. PICK hasTag \in SendsETag, body \in Bodies(list) :
                sync' = [phase |-> "answered",
                         kind  |-> IF usersETag = list THEN "304" ELSE "200",
                         list  |-> list,
                         body  |-> IF usersETag = list THEN NoBody ELSE body,
                         tag   |-> IF hasTag THEN list ELSE NoTag]
        BY <2>3 DEF Answer
      <3>2. SendsETag = {TRUE} => hasTag = TRUE
        BY <3>1
      <3>3. SendsETag = {FALSE} => hasTag = FALSE
        BY <3>1
      <3>4. /\ sync'.body \in (UNION {Bodies(l) : l \in Lists}) \cup {NoBody}
            /\ sync'.kind # "304" => sync'.body \in Bodies(sync'.list)
        BY <3>1 DEF AnswerInv
      <3>. QED
        BY <2>3, <3>1, <3>2, <3>3, <3>4 DEF AnswerInv, Answer
    <2>4. CASE SyncFails
      BY <2>4 DEF AnswerInv, SyncFails, Idle
    <2>5. CASE Load
      <3>1. sync' = Idle /\ list' = list
        BY <2>5 DEF Load
      <3>2. usersETag' = IF sync.tag # NoTag THEN sync.tag ELSE usersETag
        BY <2>5 DEF Load
      <3>. QED
        BY <3>1, <3>2 DEF AnswerInv, Idle
    <2>6. ASSUME NEW s \in Sessions, NEW c \in Clients, Handshake(s, c)
          PROVE  AnswerInv'
      BY <2>6 DEF AnswerInv, Handshake
    <2>7. ASSUME NEW s \in Sessions, LogAccess(s) PROVE AnswerInv'
      BY <2>7 DEF AnswerInv, LogAccess
    <2>8. CASE UNCHANGED vars
      BY <2>8 DEF AnswerInv, vars
    <2>. QED
      BY <2>1, <2>2, <2>3, <2>4, <2>5, <2>6, <2>7, <2>8 DEF Next
  <1>. QED
    BY <1>1, <1>2, PTL DEF Spec

\* Load is the only step that touches the store, and it leaves the store with
\* the list of the answer it got (client_store.go:78-84, kboard.go:130-143).
LEMMA LoadStep ==
    ASSUME AnswerInv, StoreIsWhatKboardSaid, Load
    PROVE  StoreIsWhatKboardSaid'
  <1>0. NoTag \notin Lists /\ SendsETag \in {{TRUE}, {FALSE}}
    BY NameAssumption
  <1>1. /\ sync.phase = "answered"
        /\ believed' = sync.list
        /\ usersETag' = IF sync.tag # NoTag THEN sync.tag ELSE usersETag
    BY DEF Load
  <1>2. /\ sync.list \in Lists
        /\ SendsETag = {TRUE} => sync.tag = sync.list
        /\ SendsETag = {FALSE} => usersETag = NoTag /\ sync.tag = NoTag
        /\ IF sync.kind = "304" THEN usersETag = sync.list
           ELSE sync.body \in Bodies(sync.list)
    BY <1>1 DEF AnswerInv
  <1>3. usersETag' \in {NoTag, sync.list}
    BY <1>0, <1>1, <1>2
  <1>4. CASE sync.kind = "304"
    <2>1. secrets' = secrets /\ users' = users
      BY <1>4 DEF Load
    <2>2. believed = sync.list
      BY <1>0, <1>2, <1>4 DEF StoreIsWhatKboardSaid
    <2>. QED
      BY <1>1, <1>3, <2>1, <2>2 DEF StoreIsWhatKboardSaid
  <1>5. CASE sync.kind # "304"
    <2>1. Unmarshal(sync.body) = sync.list
      BY <1>2, <1>5, BodyIsTheList
    <2>2. secrets' = SecretMap(sync.list) /\ users' = UserMap(sync.list)
      BY <1>5, <2>1 DEF Load
    <2>. QED
      BY <1>1, <1>3, <2>2 DEF StoreIsWhatKboardSaid
  <1>. QED
    BY <1>4, <1>5

\* The store holds what Kboard said in the last good sync, and the ETag the
\* node sends stands for it (kboard.go:120-145, client_store.go:78-84).
THEOREM StoreCorrect == Spec => []StoreIsWhatKboardSaid
  <1>1. Init => StoreIsWhatKboardSaid
    BY EmptyMaps DEF Init, StoreIsWhatKboardSaid
  <1>2. AnswerInv /\ StoreIsWhatKboardSaid /\ [Next]_vars => StoreIsWhatKboardSaid'
    <2>. SUFFICES ASSUME AnswerInv, StoreIsWhatKboardSaid, [Next]_vars
                  PROVE  StoreIsWhatKboardSaid'
      OBVIOUS
    <2>1. CASE Load
      BY <2>1, LoadStep
    <2>2. CASE UNCHANGED <<secrets, users, usersETag, believed>>
      BY <2>2 DEF StoreIsWhatKboardSaid
    <2>3. Load \/ UNCHANGED <<secrets, users, usersETag, believed>>
      BY DEF Next, ListChanges, Ask, Answer, SyncFails, Handshake, LogAccess, vars
    <2>. QED
      BY <2>1, <2>2, <2>3
  <1>. QED
    BY <1>1, <1>2, AnswerCorrect, PTL DEF Spec
-----------------------------------------------------------------------------
(* Sessions *)

\* Loading a list adds its users to the owners of the open sessions, before any
\* of them can be looked up (client_store.go:43-50, 78-84).
LEMMA LoadKeepsSessions ==
    ASSUME AnswerInv, SessionInv, Load
    PROVE  SessionInv'
  <1>. DEFINE new == UserMap(Unmarshal(sync.body))
  <1>1. session' = session /\ log' = log
    BY DEF Load
  <1>2. CASE sync.kind = "304"
    <2>1. owners' = owners /\ users' = users
      BY <1>2 DEF Load
    <2>. QED
      BY <1>1, <2>1 DEF SessionInv, AttributionIsCurrent, UserID
  <1>3. CASE sync.kind # "304"
    <2>1. /\ users' = new
          /\ owners' = [s \in Sessions |->
                IF session[s].open /\ session[s].client \in DOMAIN new
                  THEN owners[s] \cup {new[session[s].client]}
                  ELSE owners[s]]
      BY <1>3 DEF Load, OwnersAfter
    <2>. HIDE DEF new
    <2>2. \A s \in Sessions : owners[s] \subseteq owners'[s]
      BY <2>1
    <2>3. owners' = [s \in Sessions |-> owners'[s]]
      BY <2>1
    <2>4. ASSUME NEW s \in Sessions, session[s].open
          PROVE  UserID(session[s].client)' \in owners'[s] \cup {0}
      <3>1. CASE session[s].client \in DOMAIN new
        <4>1. owners'[s] = owners[s] \cup {new[session[s].client]}
          BY <2>1, <2>4, <3>1
        <4>2. UserID(session[s].client)' \in {new[session[s].client], 0}
          BY <1>1, <2>1, <3>1 DEF UserID
        <4>. QED
          BY <4>1, <4>2
      <3>2. CASE session[s].client \notin DOMAIN new
        BY <1>1, <2>1, <3>2 DEF UserID
      <3>. QED
        BY <3>1, <3>2
    <2>5. AttributionIsCurrent'
      BY <1>1, <2>2 DEF SessionInv, AttributionIsCurrent
    <2>. QED
      BY <1>1, <2>3, <2>4, <2>5 DEF SessionInv
  <1>. QED
    BY <1>2, <1>3

\* A handshake starts the session's owners with the user whose secret it was,
\* and that is the user a lookup finds (client_store.go:28-50).
LEMMA HandshakeKeepsSessions ==
    ASSUME StoreIsWhatKboardSaid, SessionInv,
           NEW s \in Sessions, NEW c \in Clients, Handshake(s, c)
    PROVE  SessionInv'
  <1>. DEFINE opened == [open |-> TRUE, client |-> c]
  <1>1. /\ ~session[s].open
        /\ session' = [session EXCEPT ![s] = opened]
        /\ owners' = [owners EXCEPT ![s] = {OwnerIn(believed, c)}]
        /\ users' = users /\ log' = log
    BY DEF Handshake
  <1>2. opened.open /\ opened.client = c
    OBVIOUS
  <1>. HIDE DEF opened
  <1>3. /\ session' = [x \in Sessions |-> IF x = s THEN opened ELSE session[x]]
        /\ owners' = [x \in Sessions |-> IF x = s THEN {OwnerIn(believed, c)} ELSE owners[x]]
    BY <1>1 DEF SessionInv
  <1>4. UserID(c) \in {OwnerIn(believed, c), 0}
    BY DEF StoreIsWhatKboardSaid, UserID, OwnerIn
  <1>6. ASSUME NEW x \in Sessions, session'[x].open
        PROVE  UserID(session[x].client)' \in owners'[x] \cup {0}
    <2>1. CASE x = s
      <3>1. session'[x] = opened /\ owners'[x] = {OwnerIn(believed, c)}
        BY <1>3, <2>1
      <3>2. UserID(session[x].client)' = UserID(c)
        BY <1>1, <1>2, <3>1 DEF UserID
      <3>. QED
        BY <1>4, <3>1, <3>2
    <2>2. CASE x # s
      <3>1. session'[x] = session[x] /\ owners'[x] = owners[x]
        BY <1>3, <2>2
      <3>2. UserID(session[x].client)' = UserID(session[x].client)
        BY <1>1, <3>1 DEF UserID
      <3>. QED
        BY <1>6, <3>1, <3>2 DEF SessionInv
    <2>. QED
      BY <2>1, <2>2
  <1>7. \A entry \in log : /\ entry.session \in Sessions
                          /\ session'[entry.session] = session[entry.session]
                          /\ owners'[entry.session] = owners[entry.session]
    BY <1>1, <1>3 DEF SessionInv
  <1>8. AttributionIsCurrent'
    BY <1>1, <1>7 DEF SessionInv, AttributionIsCurrent
  <1>9. \A entry \in log' :
            entry.session \in Sessions /\ session'[entry.session].open
    BY <1>1, <1>7 DEF SessionInv
  <1>10. session' = [x \in Sessions |-> session'[x]]
    BY <1>3
  <1>11. owners' = [x \in Sessions |-> owners'[x]]
    BY <1>3
  <1>. QED
    BY <1>6, <1>8, <1>9, <1>10, <1>11 DEF SessionInv

\* No access is attributed to an owner from before the session's handshake
\* (server_relay.go:111, client_store.go:43-50).
THEOREM AttributionCorrect == Spec => []AttributionIsCurrent
  <1>1. Init => SessionInv
    <2>. SUFFICES ASSUME Init PROVE SessionInv
      OBVIOUS
    <2>1. /\ session = [s \in Sessions |->
                            [open |-> FALSE, client |-> "none"]]
          /\ owners = [s \in Sessions |-> {}]
          /\ log = {}
      BY DEF Init
    <2>. QED
      BY <2>1 DEF SessionInv, AttributionIsCurrent
  <1>2. AnswerInv /\ StoreIsWhatKboardSaid /\ SessionInv /\ [Next]_vars => SessionInv'
    <2>. SUFFICES ASSUME AnswerInv, StoreIsWhatKboardSaid, SessionInv, [Next]_vars
                  PROVE  SessionInv'
      OBVIOUS
    <2>1. CASE Load
      BY <2>1, LoadKeepsSessions
    <2>2. ASSUME NEW s \in Sessions, NEW c \in Clients, Handshake(s, c)
          PROVE  SessionInv'
      BY <2>2, HandshakeKeepsSessions
    <2>3. ASSUME NEW s \in Sessions, LogAccess(s) PROVE SessionInv'
      BY <2>3 DEF SessionInv, AttributionIsCurrent, UserID, LogAccess
    <2>4. CASE UNCHANGED <<users, session, owners, log>>
      BY <2>4 DEF SessionInv, AttributionIsCurrent, UserID
    <2>5. \/ Load
          \/ UNCHANGED <<users, session, owners, log>>
          \/ \E s \in Sessions :
                \/ \E c \in Clients : Handshake(s, c)
                \/ LogAccess(s)
      BY DEF Next, ListChanges, Ask, Answer, SyncFails, vars
    <2>. QED
      BY <2>1, <2>2, <2>3, <2>4, <2>5
  <1>3. SessionInv => AttributionIsCurrent
    BY DEF SessionInv
  <1>. QED
    BY <1>1, <1>2, <1>3, AnswerCorrect, StoreCorrect, PTL DEF Spec
-----------------------------------------------------------------------------
(* Types *)

\* A set of numbers none of which exceeds n has a largest one: the least of its
\* bounds.
LEMMA LargestExists ==
    ASSUME NEW n \in Nat, NEW S, S \subseteq 1..n, S # {}
    PROVE  \E k \in S : \A j \in S : j <= k
  <1>. DEFINE Bounds == {m \in Nat : \A j \in S : j <= m}
  <1>1. Bounds \subseteq Nat /\ Bounds # {}
    <2>1. n \in Bounds
      OBVIOUS
    <2>. QED
      BY <2>1
  <1>2. \E m \in Bounds : \A b \in Bounds : ~(<<b, m>> \in OpToRel(<, Nat))
    <2>. HIDE DEF Bounds
    <2>. QED
      BY <1>1, NatLessThanWellFounded, WFMin
  <1>3. PICK m \in Bounds : \A b \in Bounds : ~(b < m)
    <2>1. \A b, m \in Nat : b < m => <<b, m>> \in OpToRel(<, Nat)
      BY DEF OpToRel
    <2>. QED
      BY <1>1, <1>2, <2>1
  <1>4. m \in S
    <2>. SUFFICES ASSUME m \notin S PROVE FALSE
      OBVIOUS
    <2>1. m \in Nat /\ \A j \in S : j \in Nat /\ 1 <= j /\ j < m
      BY <1>3
    <2>2. PICK j \in S : TRUE
      OBVIOUS
    <2>3. m - 1 \in Nat /\ \A i \in S : i <= m - 1
      BY <2>1, <2>2
    <2>4. m - 1 \in Bounds /\ m - 1 < m
      BY <2>1, <2>3
    <2>. QED
      BY <1>3, <2>4
  <1>. QED
    BY <1>3, <1>4

\* Of the entries for a listed client there is a last one, it is usable, and it
\* is the one whose secret and user the node takes (client_store.go:86-100).
LEMMA EntryForIsUsable ==
    ASSUME NEW l \in Lists \cup {<<>>}, NEW c \in Listed(l)
    PROVE  Usable(EntryFor(l, c)) /\ ClientID(EntryFor(l, c)) = c
  <1>1. Len(l) \in Nat /\ DOMAIN l = 1..Len(l)
    BY NameAssumption
  <1>2. EntriesOf(l, c) \subseteq 1..Len(l) /\ EntriesOf(l, c) # {}
    BY <1>1 DEF EntriesOf, Listed
  <1>3. \E k \in EntriesOf(l, c) : \A j \in EntriesOf(l, c) : j <= k
    BY <1>1, <1>2, LargestExists
  <1>4. PICK k \in EntriesOf(l, c) : EntryFor(l, c) = l[k]
    BY <1>3 DEF EntryFor
  <1>. QED
    BY <1>4 DEF EntriesOf

\* The secrets of a list are those of usable entries.
LEMMA SecretsAreLong ==
    ASSUME NEW l \in Lists \cup {<<>>}
    PROVE  /\ DOMAIN SecretMap(l) \subseteq Clients
           /\ DOMAIN UserMap(l) = DOMAIN SecretMap(l)
           /\ \A c \in DOMAIN SecretMap(l) :
                SecretMap(l)[c][1] = "given" => KeyBytes[SecretMap(l)[c][2]] >= 32
  <1>1. DOMAIN SecretMap(l) = Listed(l) /\ DOMAIN UserMap(l) = Listed(l)
    BY DEF SecretMap, UserMap
  <1>2. Listed(l) \subseteq Clients
    BY DEF Listed, Usable
  <1>3. ASSUME NEW c \in Listed(l), SecretMap(l)[c][1] = "given"
        PROVE  KeyBytes[SecretMap(l)[c][2]] >= 32
    <2>. DEFINE e == EntryFor(l, c)
    <2>1. SecretMap(l)[c] = UserSecret(e)
      BY DEF SecretMap
    <2>2. Usable(e)
      BY EntryForIsUsable
    <2>. HIDE DEF e
    <2>3. CASE SecretText(e) # ""
      <3>1. SecretMap(l)[c] = <<"given", SecretText(e)>>
        BY <2>1, <2>3 DEF UserSecret
      <3>2. SecretMap(l)[c][2] = SecretText(e)
        BY <3>1
      <3>. QED
        BY <2>2, <2>3, <3>2 DEF Usable
    <2>4. CASE SecretText(e) = ""
      <3>1. SecretMap(l)[c] = <<"derived", Trim[e.uuid], Trim[e.token]>>
        BY <2>1, <2>4 DEF UserSecret
      <3>2. SecretMap(l)[c][1] = "derived"
        BY <3>1
      <3>. QED
        BY <1>3, <3>2
    <2>. QED
      BY <2>3, <2>4
  <1>. QED
    BY <1>1, <1>2, <1>3

\* What the node believes and who its sessions are.
KnownInv ==
    /\ changes \in 0..MaxChanges
    /\ believed \in Lists \cup {<<>>}
    /\ session = [s \in Sessions |-> session[s]]
    /\ \A s \in Sessions : session[s].open => session[s].client \in Clients

\* There is one user and one secret for each dynamic client, and a secret that
\* Kboard sent has 32 bytes or more (kboard.go:305-315, client_store.go:86-100).
THEOREM TypeCorrect == Spec => []TypeOK
  <1>1. Init => KnownInv
    BY NameAssumption DEF Init, KnownInv
  <1>2. AnswerInv /\ KnownInv /\ [Next]_vars => KnownInv'
    <2>. SUFFICES ASSUME AnswerInv, KnownInv, [Next]_vars PROVE KnownInv'
      OBVIOUS
    <2>1. ASSUME NEW l \in Lists, ListChanges(l) PROVE KnownInv'
      <3>1. changes \in 0..MaxChanges /\ changes < MaxChanges /\ changes' = changes + 1
        BY <2>1 DEF KnownInv, ListChanges
      <3>2. changes' \in 0..MaxChanges
        BY <3>1, NameAssumption
      <3>. QED
        BY <2>1, <3>2 DEF KnownInv, ListChanges
    <2>2. CASE Load
      BY <2>2 DEF AnswerInv, KnownInv, Load
    <2>3. ASSUME NEW s \in Sessions, NEW c \in Clients, Handshake(s, c)
          PROVE  KnownInv'
      BY <2>3 DEF KnownInv, Handshake
    <2>4. CASE UNCHANGED <<changes, believed, session>>
      BY <2>4 DEF KnownInv
    <2>5. \/ Load
          \/ UNCHANGED <<changes, believed, session>>
          \/ \E l \in Lists : ListChanges(l)
          \/ \E s \in Sessions, c \in Clients : Handshake(s, c)
      BY DEF Next, Ask, Answer, SyncFails, LogAccess, vars
    <2>. QED
      BY <2>1, <2>2, <2>3, <2>4, <2>5
  <1>3. AnswerInv /\ StoreIsWhatKboardSaid /\ KnownInv => TypeOK
    <2>. SUFFICES ASSUME AnswerInv, StoreIsWhatKboardSaid, KnownInv PROVE TypeOK
      OBVIOUS
    <2>1. /\ DOMAIN secrets \subseteq Clients /\ DOMAIN users = DOMAIN secrets
          /\ \A c \in DOMAIN secrets :
                secrets[c][1] = "given" => KeyBytes[secrets[c][2]] >= 32
      BY SecretsAreLong DEF StoreIsWhatKboardSaid, KnownInv
    <2>. QED
      BY <2>1 DEF AnswerInv, KnownInv, TypeOK
  <1>. QED
    BY <1>1, <1>2, <1>3, AnswerCorrect, StoreCorrect, PTL DEF Spec
=============================================================================
