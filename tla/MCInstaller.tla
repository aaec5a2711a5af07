---------------------------- MODULE MCInstaller ----------------------------
(***************************************************************************)
(* An instance of Installer for TLC: two releases, of which the second     *)
(* rejects one of the configurations a person may write.                   *)
(***************************************************************************)
EXTENDS Installer

MCAccepts ==
    {<<v, c>> : v \in {"v1", "v2"}, c \in {"own", "env", "env-kboard"}}
        \cup {<<"v1", "own-kboard">>}
=============================================================================
