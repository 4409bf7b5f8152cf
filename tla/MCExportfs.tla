---------------------------- MODULE MCExportfs -----------------------------
EXTENDS Exportfs
=============================================================================
