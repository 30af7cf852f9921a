---------------------------- MODULE MCDispatcher ----------------------------
(* Two broadcasts that overlap, as those of an old and a new watcher do,   *)
(* over two subscribers.                                                   *)
EXTENDS Dispatcher
============================================================================
