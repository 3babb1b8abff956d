------------------------------ MODULE MCSchema ------------------------------
(* A daemon and a command of an older version, with three migrations of     *)
(* which the second cannot be repeated, and a backup.                       *)
EXTENDS Schema

CONSTANTS Daemon, Command

NewestVersions == [p \in {Daemon, Command} |-> IF p = Daemon THEN 3 ELSE 2]
=============================================================================
