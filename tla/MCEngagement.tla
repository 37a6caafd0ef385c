---------------------------- MODULE MCEngagement ----------------------------
(* Small instances of Engagement for TLC. *)
EXTENDS Engagement

CONSTANTS c1, c2, u1, u2    \* comments, two moderators (u1 wrote the post)
=============================================================================
