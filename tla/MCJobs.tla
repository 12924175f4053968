------------------------------- MODULE MCJobs --------------------------------
EXTENDS Jobs
==============================================================================
