---------------------------- MODULE MCSqsClient ----------------------------
(***************************************************************************)
(* SqsClient for TLC: a primary endpoint and its backups.                  *)
(***************************************************************************)
EXTENDS SqsClient

CONSTANTS main, backup1, backup2

TwoBackups == <<main, backup1, backup2>>
============================================================================
