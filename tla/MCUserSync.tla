----------------------------- MODULE MCUserSync -----------------------------
(***************************************************************************)
(* UserSync with two client ids, one of them also static, and lists in     *)
(* which an id is absent, changes its owner, is listed twice, is named by  *)
(* one field or another, or has an unusable secret.                        *)
(***************************************************************************)
EXTENDS UserSync

MCTrim == [t \in {"", " ", "a", " a", "b", "1", "key", "short", "?"} |->
    CASE t = " " -> "" [] t = " a" -> "a" [] OTHER -> t]
MCKeyBytes == [t \in DOMAIN MCTrim |->
    CASE t = "key" -> 32 [] t = "short" -> 16 [] t = "?" -> -1 [] OTHER -> 0]

User == [id |-> 0, uuid |-> "", token |-> "", clientID |-> "", klessClientID |-> "",
         clientSecret |-> "", klessSecret |-> ""]

\* The id and the secret come from the newer fields, from the older ones, or
\* from the uuid or the number with a derived secret; a user may have none.
MCLists == { <<>>,
             <<[User EXCEPT !.id = 1, !.uuid = "b", !.klessClientID = " a",
                            !.clientSecret = "short", !.klessSecret = "key"]>>,
             <<[User EXCEPT !.id = 1, !.klessClientID = "a", !.klessSecret = "?"],
               [User EXCEPT !.id = 1],
               [User EXCEPT !.token = "1"]>>,
             <<[User EXCEPT !.id = 1, !.clientID = "a", !.klessSecret = " ",
                            !.clientSecret = "key"],
               [User EXCEPT !.id = 2, !.uuid = "a", !.token = "1"]>> }
=============================================================================
