-------------------------- MODULE MCCompileBacklog --------------------------
EXTENDS CompileBacklog

MCDoc == 1..1
MCWorker == {"w1", "w2"}
=============================================================================
