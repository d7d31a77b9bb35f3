------------------------------ MODULE MCExporter ------------------------------
(* An instance of Exporter for TLC: the cfg gives the constants.              *)
EXTENDS Exporter
===============================================================================
