---------------------------- MODULE KboardUsers ----------------------------
(***************************************************************************)
(* From the body of Kboard's answer to the credentials of the node: the    *)
(* two forms the body may have, the fields that may name a client and its  *)
(* secret, and the maps that are built of them (internal/node/kboard.go    *)
(* UnmarshalJSON, syncUsers, userCredential; client_store.go).             *)
(*                                                                         *)
(* A text is a string, "" when it is missing.  A field of JSON that may be *)
(* null is a set with at most one element.                                 *)
(***************************************************************************)
EXTENDS Integers, Sequences, TLC

CONSTANTS
    Trim,      \* strings.TrimSpace, on every text
    KeyBytes,  \* number of bytes a text decodes to, -1 if no encoding fits
    Clients    \* the trimmed texts that name a client

ASSUME KeyAssumption == KeyBytes \in [DOMAIN Trim -> Int]
-----------------------------------------------------------------------------
(* Bodies *)

\* The metadata are the version, the node id, the count and the time.
Nothing == [meta |-> FALSE, users |-> {}]

\* Mutant: the wrapped form is not looked for.
UnmarshalTopOnly(body) ==
    IF body.top.users = {} THEN <<>> ELSE CHOOSE l \in body.top.users : TRUE

\* UnmarshalJSON: anything of a response at the top means that it is all
\* there, otherwise the response is what "data" holds.
Unmarshal(body) ==
    LET part == IF body.top.meta \/ body.top.users # {} THEN body.top ELSE body.data
    IN IF part.users = {} THEN <<>> ELSE CHOOSE l \in part.users : TRUE

\* How Kboard may write the list l: plain or wrapped in "data", with metadata
\* or without, and an empty list as null as well.
Bodies(l) ==
    LET parts == [meta : BOOLEAN, users : {{l}} \cup IF l = <<>> THEN {{}} ELSE {}]
    IN [top : parts, data : {Nothing}] \cup [top : {Nothing}, data : parts]
-----------------------------------------------------------------------------
(* Credentials *)

\* A field, or the one that stands in for it when it is empty.
FirstGiven(s, t) == IF s # "" THEN s ELSE t

\* clientIDForUser; the trimming is that of credentialMaps.
ClientID(u) ==
    Trim[FirstGiven(u.klessClientID, FirstGiven(u.clientID,
            FirstGiven(u.uuid, IF u.id > 0 THEN ToString(u.id) ELSE "")))]

\* The secret that came with the user, or the one that is derived from the
\* user's uuid and token (deriveUserClientSecret, always 32 bytes).
SecretText(u) == FirstGiven(Trim[u.klessSecret], Trim[u.clientSecret])

UserSecret(u) ==
    IF SecretText(u) # "" THEN <<"given", SecretText(u)>>
    ELSE <<"derived", Trim[u.uuid], Trim[u.token]>>

\* decodeKLESSKey: one of the four base64 alphabets fits the text.
Decodes(t) == KeyBytes[t] >= 0

\* Mutant: the length of a secret is not looked at.
UsableUnchecked(u) == ClientID(u) \in Clients

\* userCredential and credentialMaps: a user without an id, or with a secret
\* that does not decode or is too short, is left out.
Usable(u) ==
    /\ ClientID(u) \in Clients
    /\ SecretText(u) # "" =>
           Decodes(SecretText(u)) /\ KeyBytes[SecretText(u)] >= 32

EntriesOf(l, c) == {k \in DOMAIN l : ClientID(l[k]) = c /\ Usable(l[k])}
Listed(l) == {ClientID(l[k]) : k \in {j \in DOMAIN l : Usable(l[j])}}

\* Of two entries for one id the later counts.
EntryFor(l, c) == l[CHOOSE k \in EntriesOf(l, c) : \A j \in EntriesOf(l, c) : j <= k]

SecretMap(l) == [c \in Listed(l) |-> UserSecret(EntryFor(l, c))]
UserMap(l)   == [c \in Listed(l) |-> EntryFor(l, c).id]
=============================================================================
