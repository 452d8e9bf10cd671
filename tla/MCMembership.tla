---------------------------- MODULE MCMembership ----------------------------
(* A small instance of Membership: one WeChat identity and room for the    *)
(* two accounts that two overlapping first logins would create.            *)
EXTENDS Membership
=============================================================================
