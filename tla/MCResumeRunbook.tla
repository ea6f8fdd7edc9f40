-------------------------- MODULE MCResumeRunbook --------------------------
EXTENDS ResumeRunbook, MCMockBackend
=============================================================================
