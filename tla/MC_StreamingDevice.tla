------------------------- MODULE MC_StreamingDevice -------------------------
(* Every streaming application, with either controller.                     *)
EXTENDS StreamingApplications
=============================================================================
