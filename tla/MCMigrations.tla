---------------------------- MODULE MCMigrations ----------------------------
(***************************************************************************)
(* Model checking of Migrations on small instances.                         *)
(***************************************************************************)
EXTENDS Migrations

CONSTANTS a, b, c, edited   \* texts: edited is a changed b

\* A release, the next one, and one that has changed a migration it should not.
ThreeBuilds == {<<a, b>>, <<a, b, c>>, <<a, edited, c>>}

\* A database without sqlx, one that stopped half-way, one that sqlx brought
\* to each release.
SqlxHistories == {<<>>, <<a>>, <<a, b>>, <<a, b, c>>}
=============================================================================
