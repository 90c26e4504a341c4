------------------------- MODULE MCReportRegistration -------------------------
(* ReportRegistration with files around the borders of parts and of the limit. *)
EXTENDS ReportRegistration

MCSizes == 0 .. 6
=============================================================================
