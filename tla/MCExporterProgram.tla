-------------------------- MODULE MCExporterProgram --------------------------
(* Small instances of the exporter program for TLC. *)
EXTENDS ExporterProgram

CONSTANTS c1, c2, s1, s2
=============================================================================
