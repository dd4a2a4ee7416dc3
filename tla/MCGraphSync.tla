------------------------------ MODULE MCGraphSync ------------------------------
(***************************************************************************)
(* A small instance of GraphSync: a host and three scripts, two of them    *)
(* on one repository and one whose path does not name a repository.  No    *)
(* script has a role, which nothing here looks at.                         *)
(***************************************************************************)
EXTENDS GraphSync

CONSTANTS h1, c1, c2, c3, repo, crontabs

MCHosts == {h1}
MCRoles == {}
MCCommands == {c1, c2, c3}
MCRepositories == {repo, crontabs}
MCRepositoryOf == [c \in MCCommands |-> IF c = c3 THEN crontabs ELSE repo]
MCImproper == {crontabs}
=============================================================================
