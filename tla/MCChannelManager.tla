-------------------------- MODULE MCChannelManager --------------------------
(* Two channel objects: one complete replacement. The second object ends only *)
(* with a Close of the manager or of the connection, which is also the one    *)
(* case in which RearmFails happens here.                                     *)
EXTENDS ChannelRefinement
=============================================================================
