------------------------------ MODULE UserSync ------------------------------
(***************************************************************************)
(* Who may connect and whom an access is attributed to: the credential     *)
(* store that all kless-server inbounds share (internal/node/              *)
(* client_store.go), the reporter's user synchronisation with its ETag     *)
(* (internal/node/kboard.go, syncUsers and getJSON), and the sessions that *)
(* look a client up at their handshake and again, later, when they log an  *)
(* access (internal/node/server_relay.go).                                 *)
(*                                                                         *)
(* Kboard is external: its list changes at any time and its ETag, which is *)
(* named by the list, is a function of the list.                           *)
(***************************************************************************)
EXTENDS KboardUsers

CONSTANTS
    Static,      \* the clients with a credential in the configuration
    Lists,       \* user lists Kboard may have
    Sessions,    \* connections whose handshake may succeed
    MaxChanges,  \* bound on the number of changes of Kboard's list
    SendsETag,   \* whether Kboard's answers carry an ETag: {TRUE}, {FALSE}
    NoTag        \* the empty ETag

ASSUME NameAssumption ==
    /\ Static \subseteq Clients
    /\ \A l \in Lists : Len(l) \in Nat /\ DOMAIN l = 1..Len(l)
    /\ MaxChanges \in Nat
    /\ SendsETag \in {{TRUE}, {FALSE}}
    /\ NoTag \notin Lists

VARIABLES
    list,       \* Kboard's current user list
    changes,    \* how often it has changed
    secrets,    \* dynamicClientStore.dynamicSecrets
    users,      \* dynamicClientStore.dynamicUsers
    usersETag,  \* kboardReporter.usersETag
    sync,       \* the request under way and what Kboard answered
    believed,   \* the list Kboard had at the answer that the last good sync got
    session,    \* each session and its client
    owners,     \* the users its client id has belonged to since its handshake
    log         \* the accesses recorded: session and user

vars == <<list, changes, secrets, users, usersETag, sync, believed,
          session, owners, log>>
-----------------------------------------------------------------------------
\* LookupClientSecret: the dynamic credentials hide the static ones, which
\* belong to no user.
StaticSecret == <<"static">>
Known(c)  == c \in DOMAIN secrets \cup Static
Secret(c) == IF c \in DOMAIN secrets THEN secrets[c] ELSE StaticSecret

\* UserID: a positive dynamic id, or the static one, which is never set.
UserID(c) == IF c \in DOMAIN users /\ users[c] > 0 THEN users[c] ELSE 0

\* Whose credential the list l gives the client id c.
OwnerIn(l, c) == IF c \in DOMAIN UserMap(l) THEN UserMap(l)[c] ELSE 0

Empty == [c \in {} |-> 0]
NoBody == [top |-> Nothing, data |-> Nothing]
Idle == [phase |-> "idle", kind |-> "none", list |-> <<>>, body |-> NoBody, tag |-> NoTag]

Init ==
    /\ list \in Lists
    /\ changes = 0
    /\ secrets = Empty
    /\ users = Empty
    /\ usersETag = NoTag
    /\ sync = Idle
    /\ believed = <<>>
    /\ session = [s \in Sessions |-> [open |-> FALSE, client |-> "none"]]
    /\ owners = [s \in Sessions |-> {}]
    /\ log = {}

\* The administrator of Kboard edits the users.
ListChanges(l) ==
    /\ changes < MaxChanges
    /\ l # list
    /\ list' = l
    /\ changes' = changes + 1
    /\ UNCHANGED <<secrets, users, usersETag, sync, believed, session, owners, log>>
-----------------------------------------------------------------------------
(* syncUsers *)

\* GET, with If-None-Match when an ETag is known.
Ask ==
    /\ sync.phase = "idle"
    /\ sync' = [sync EXCEPT !.phase = "asked"]
    /\ UNCHANGED <<list, changes, secrets, users, usersETag, believed, session,
                   owners, log>>

\* Kboard compares the ETag it was sent with that of the list it has now.
Answer ==
    /\ sync.phase = "asked"
    /\ \E hasTag \in SendsETag, body \in Bodies(list) :
        sync' = [phase |-> "answered",
                 kind  |-> IF usersETag = list THEN "304" ELSE "200",
                 list  |-> list,
                 body  |-> IF usersETag = list THEN NoBody ELSE body,
                 tag   |-> IF hasTag THEN list ELSE NoTag]
    /\ UNCHANGED <<list, changes, secrets, users, usersETag, believed, session,
                   owners, log>>

\* Mutant: the ETag is kept although the body could not be decoded.
SyncFailsKeepingTag ==
    /\ sync.phase \in {"asked", "answered"}
    /\ usersETag' = IF sync.tag # NoTag THEN sync.tag ELSE usersETag
    /\ sync' = Idle
    /\ UNCHANGED <<list, changes, secrets, users, believed, session, owners, log>>

\* No answer, another status, or a body that cannot be decoded: the ETag and
\* the store stay as they are until the next report.
SyncFails ==
    /\ sync.phase \in {"asked", "answered"}
    /\ sync' = Idle
    /\ UNCHANGED <<list, changes, secrets, users, usersETag, believed, session,
                   owners, log>>

\* History: the new owners of the clients of the open sessions.
OwnersAfter(new) ==
    [s \in Sessions |->
        IF session[s].open /\ session[s].client \in DOMAIN new
          THEN owners[s] \cup {new[session[s].client]} ELSE owners[s]]

\* Mutant: users of the old list stay in the second map.
LoadMergingUsers ==
    /\ sync.phase = "answered"
    /\ usersETag' = IF sync.tag # NoTag THEN sync.tag ELSE usersETag
    /\ believed' = sync.list
    /\ IF sync.kind = "304"
         THEN UNCHANGED <<secrets, users, owners>>
         ELSE LET sent == Unmarshal(sync.body)
                  new  == UserMap(sent)
              IN secrets' = SecretMap(sent) /\ users' = new @@ users /\ owners' = OwnersAfter(new)
    /\ sync' = Idle
    /\ UNCHANGED <<list, changes, session, log>>

\* ReplaceDynamic swaps both maps under one lock.
Load ==
    /\ sync.phase = "answered"
    /\ usersETag' = IF sync.tag # NoTag THEN sync.tag ELSE usersETag
    /\ believed' = sync.list
    /\ IF sync.kind = "304"
         THEN UNCHANGED <<secrets, users, owners>>
         ELSE LET sent == Unmarshal(sync.body)
                  new  == UserMap(sent)
              IN secrets' = SecretMap(sent) /\ users' = new /\ owners' = OwnersAfter(new)
    /\ sync' = Idle
    /\ UNCHANGED <<list, changes, session, log>>
-----------------------------------------------------------------------------
(* Sessions *)

\* kless.ServerHandshake succeeds for a client that knows the secret the store
\* returns, which is its owner's.
Handshake(s, c) ==
    /\ ~session[s].open
    /\ Known(c)
    /\ session' = [session EXCEPT ![s] = [open |-> TRUE, client |-> c]]
    /\ owners' = [owners EXCEPT ![s] = {OwnerIn(believed, c)}]
    /\ UNCHANGED <<list, changes, secrets, users, usersETag, sync, believed, log>>

\* handleTCPConnect and recordUDPAccess look the user up anew.
LogAccess(s) ==
    /\ session[s].open
    /\ log' = log \cup {[session |-> s, user |-> UserID(session[s].client)]}
    /\ UNCHANGED <<list, changes, secrets, users, usersETag, sync, believed,
                   session, owners>>

Next ==
    \/ \E l \in Lists : ListChanges(l)
    \/ Ask \/ Answer \/ SyncFails \/ Load
    \/ \E s \in Sessions :
        \/ \E c \in Clients : Handshake(s, c)
        \/ LogAccess(s)

\* The reporter's ticker keeps firing and its HTTP client has a timeout.
Fairness == WF_vars(Ask) /\ WF_vars(SyncFails \/ Answer \/ Load)

Spec == Init /\ [][Next]_vars /\ Fairness
-----------------------------------------------------------------------------
(* Correctness *)

\* The two maps of the store and the reporter's bookkeeping are well formed:
\* there is one user and one secret for each dynamic client, the secret of 32
\* bytes or more (kboard.go:305-315, client_store.go:86-100).
TypeOK ==
    /\ list \in Lists
    /\ changes \in 0..MaxChanges
    /\ DOMAIN secrets \subseteq Clients /\ DOMAIN users = DOMAIN secrets
    /\ \A c \in DOMAIN secrets :
        secrets[c][1] = "given" => KeyBytes[secrets[c][2]] >= 32
    /\ usersETag \in Lists \cup {NoTag}
    /\ sync.phase \in {"idle", "asked", "answered"}
    /\ sync.tag \in Lists \cup {NoTag}
    /\ \A s \in Sessions : session[s].open => session[s].client \in Clients

\* After every sync that did not fail, whether it brought a list in one of the
\* two forms or a 304, the store holds the list Kboard had when it answered,
\* whole and nothing else: a user removed before that, or whose client id had
\* moved to somebody else, cannot start a session.  The ETag, if there is one,
\* stands for that list, so no 304 can leave other users in place than Kboard
\* believes the node has; that of an answer that failed to decode is not kept
\* (kboard.go:57-75, 120-145, 254-267, client_store.go:78-84).
StoreIsWhatKboardSaid ==
    /\ secrets = SecretMap(believed)
    /\ users = UserMap(believed)
    /\ usersETag # NoTag => usersETag = believed

\* An access is attributed to no one, or to a user to whom the client id of
\* the session has belonged at some time since the session's handshake: the
\* lookup at logging time never yields an owner of an earlier time
\* (server_relay.go:111, 262, client_store.go:43-50).
AttributionIsCurrent ==
    \A entry \in log : entry.user \in owners[entry.session] \cup {0}

\* If syncs do not fail for ever, the node ends up with the list Kboard ends
\* up with, ETags and lost answers notwithstanding (kboard.go:120-145).
SyncRecovers == SF_vars(Answer) /\ SF_vars(Load)

UsersConverge ==
    SyncRecovers => <>[](secrets = SecretMap(list) /\ users = UserMap(list))
=============================================================================
