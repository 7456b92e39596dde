-------------------------- MODULE MCIngestionTasks --------------------------
EXTENDS IngestionTasks

OneDoc == <<1>>

OneProc == <<1>>
=============================================================================
