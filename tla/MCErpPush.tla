------------------------------ MODULE MCErpPush ------------------------------
(* Small instances of ErpPush.                                             *)
EXTENDS ErpPush, TLC

CONSTANTS task, request   \* a Celery task and an API request

================================================================================
