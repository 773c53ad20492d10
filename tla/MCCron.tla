-------------------------------- MODULE MCCron --------------------------------
(* A one-shot and a recurring job, checked on small instances.             *)
EXTENDS Cron

CONSTANTS once, daily
================================================================================
