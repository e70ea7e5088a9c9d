--------------------------- MODULE MCWorkPaperJobs ---------------------------
(* Instances of WorkPaperJobs for TLC.                                     *)
EXTENDS WorkPaperJobs

=============================================================================
