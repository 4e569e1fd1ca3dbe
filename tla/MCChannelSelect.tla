---------------------------- MODULE MCChannelSelect ----------------------------
(* Instances of ChannelSelect for TLC.                                      *)
EXTENDS ChannelSelect, TLC

\* Two channels in the first group; the second, of several keys, in both.
TheGroups == 1 :> {1} @@ 2 :> {1, 2}
ThePriorities == 1 :> 2 @@ 2 :> 1
================================================================================
