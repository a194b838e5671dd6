------------------------------- MODULE Group -------------------------------
(***************************************************************************)
(* What a proxy group promises the connections that dial through it: it    *)
(* has no proxy to dial before it is linked to its members, from then on   *)
(* its first member, and whenever it changes its mind another member.      *)
(***************************************************************************)
EXTENDS Sequences, Functions

CONSTANTS Proxies,  \* what a group may have for members
          None      \* nullptr

VARIABLES members,  \* the members, in the order of the configuration
          active    \* the member a connection is dialled through

groupVars == <<members, active>>

GroupInit == members = <<>> /\ active = None

Link ==
    /\ members = <<>> /\ members' \in Seq(Proxies)
    /\ active' = IF members' = <<>> THEN None ELSE members'[1]

Switch == active' \in Range(members) /\ UNCHANGED members

GroupNext == Link \/ Switch

GroupSpec == GroupInit /\ [][GroupNext]_groupVars

=============================================================================
