------------------------- MODULE MCReporterSchedule -------------------------
(***************************************************************************)
(* ReporterSchedule in units of five seconds: the flush period and the     *)
(* client's timeout are two units, as in the code, the report interval six *)
(* units (the default) or twelve.                                          *)
(***************************************************************************)
EXTENDS ReporterSchedule
=============================================================================
