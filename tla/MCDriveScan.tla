------------------------------ MODULE MCDriveScan ------------------------------
(* DriveScan for TLC: whisper with a review, neither, and a dry run.       *)
EXTENDS DriveScan

Flag(dry, transcribe, review) == [dry |-> dry, transcribe |-> transcribe, review |-> review]
AllFlags == {Flag(FALSE, TRUE, TRUE), Flag(FALSE, FALSE, FALSE), Flag(TRUE, TRUE, TRUE)}
=============================================================================
