---------------------------- MODULE MCAgentQueue ----------------------------
(***************************************************************************)
(* A preparation that its client sends again while the first submitter may *)
(* still be at work, and a shutdown by a slow submitter.                   *)
(***************************************************************************)
EXTENDS AgentQueue

CONSTANTS s1, s2, s3

SubmitterOf(s) ==
    IF s = s3 THEN Stop ELSE Prepare
=============================================================================
