-------------------------- MODULE MCServiceManager --------------------------
(* Three services, the smallest listing in which pruning skips a neighbour.  *)
EXTENDS ServiceManager

MCInitD == <<"apache", "cron", "ssh">>
=============================================================================
