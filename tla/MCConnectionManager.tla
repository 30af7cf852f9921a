------------------------ MODULE MCConnectionManager ------------------------
(* Four connection objects: three complete replacements, or fewer, some   *)
(* of an object that died before it was installed.                         *)
EXTENDS ConnectionManager
============================================================================
