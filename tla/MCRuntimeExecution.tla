------------------------- MODULE MCRuntimeExecution -------------------------
\* Model values for RuntimeExecution: two commands of threads of the process and
\* one that arrives over IPC, with room for two permits and one queue entry.
EXTENDS RuntimeExecution, TLC

CONSTANTS local1, local2, remote

MCCommands == {local1, local2, remote}
MCAdmitted == {remote}
=============================================================================
