---------------------------- MODULE CoreServices ----------------------------
(***************************************************************************)
(* The services of src/core and the WebSocket manager side by side: the    *)
(* circuit breaker, the rate limiter, the bulkhead, the retry loop, the    *)
(* audit trail, the backups, the health checks, and the clients' tables.   *)
(* They share no state and call nothing of each other, so what one of them *)
(* does while another moves adds nothing: a behaviour follows one of them, *)
(* chosen at first.                                                        *)
(***************************************************************************)
EXTENDS CircuitBreaker, RateLimits, Bulkhead, RetryLoop, AuditTrail, Backups, ServiceHealth,
        WebSockets

VARIABLE service

serviceVars == <<vars, rateVars, bulkVars, retryVars, auditVars, backupVars, healthVars,
                 socketVars, service>>

ServicesInit ==
    /\ Init /\ RateInit /\ BulkInit /\ RetryInit /\ AuditInit /\ BackupInit /\ HealthInit
    /\ SocketInit
    /\ service \in {"breaker", "limits", "bulkhead", "retry", "audit", "backups", "health",
                   "websockets"}

ServicesNext ==
    /\ UNCHANGED service
    /\ \/ /\ service = "breaker" /\ Next
          /\ UNCHANGED <<rateVars, bulkVars, retryVars, auditVars, backupVars, healthVars, socketVars>>
       \/ /\ service = "limits" /\ RateNext
          /\ UNCHANGED <<vars, bulkVars, retryVars, auditVars, backupVars, healthVars, socketVars>>
       \/ /\ service = "bulkhead" /\ BulkNext
          /\ UNCHANGED <<vars, rateVars, retryVars, auditVars, backupVars, healthVars, socketVars>>
       \/ /\ service = "retry" /\ RetryNext
          /\ UNCHANGED <<vars, rateVars, bulkVars, auditVars, backupVars, healthVars, socketVars>>
       \/ /\ service = "audit" /\ AuditNext
          /\ UNCHANGED <<vars, rateVars, bulkVars, retryVars, backupVars, healthVars, socketVars>>
       \/ /\ service = "backups" /\ BackupNext
          /\ UNCHANGED <<vars, rateVars, bulkVars, retryVars, auditVars, healthVars, socketVars>>
       \/ /\ service = "health" /\ HealthNext
          /\ UNCHANGED <<vars, rateVars, bulkVars, retryVars, auditVars, backupVars, socketVars>>
       \/ /\ service = "websockets" /\ SocketNext
          /\ UNCHANGED <<vars, rateVars, bulkVars, retryVars, auditVars, backupVars, healthVars>>

(* The fairness each service has on its own, for the one that is followed. *)
ServicesFairness ==
    \/ service = "breaker" /\ Fairness
    \/ service = "health" /\ HealthFairness
    \/ service = "websockets" /\ SocketFairness
    \/ service \in {"limits", "bulkhead", "retry", "audit", "backups"}

ServicesSpec == ServicesInit /\ [][ServicesNext]_serviceVars /\ ServicesFairness
=============================================================================
