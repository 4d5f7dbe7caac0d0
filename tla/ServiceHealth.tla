---------------------------- MODULE ServiceHealth ----------------------------
(***************************************************************************)
(* ServiceHealthMonitor (src/services/health_monitor.py) with what it      *)
(* asks: check_database_health (src/core/database.py) and the global       *)
(* RedisClient (src/core/redis_client.py), which the health endpoints      *)
(* (src/api/health.py) ask at the same time.  The application connects the *)
(* client and starts the checks before it serves, and stops them before it *)
(* closes the client (src/main.py:121-137, 356-361).                       *)
(***************************************************************************)
EXTENDS Naturals

VARIABLES
    redisUp,        \* does the Redis server answer?
    client,         \* the global client: "absent", "connected", or "lost":
                    \* it says it is not connected
    monitor,        \* the periodic task: "stopped", in the "database" check,
                    \* "pinging" Redis, "sleeping"
    endpoint,       \* a health request: "idle", "pinging"
    services        \* the ServiceHealth records that checks update

healthVars == <<redisUp, client, monitor, endpoint, services>>

UnhealthyAfter == 5
DegradedAfter == 2
NeverChecked == [status |-> "unknown", failures |-> 0]

HealthInit ==
    /\ redisUp \in BOOLEAN
    /\ client = "absent"
    /\ monitor = "stopped"
    /\ endpoint = "idle"
    /\ services = [s \in {"database", "redis"} |-> NeverChecked]

(* The status a service has after n failures in a row: one alone does not  *)
(* change it.                                                              *)
StatusAfter(n, old) ==
    IF n >= UnhealthyAfter THEN "unhealthy" ELSE IF n >= DegradedAfter THEN "degraded" ELSE old

(* update_health with a failure, record_failure; the count stands for all  *)
(* numbers from UnhealthyAfter on.                                         *)
Failed(record) ==
    LET n == IF record.failures < UnhealthyAfter THEN record.failures + 1 ELSE UnhealthyAfter
    IN  [status |-> StatusAfter(n, record.status), failures |-> n]

(* update_health with HEALTHY, record_success.                             *)
Succeeded(record) == [status |-> "healthy", failures |-> 0]
-----------------------------------------------------------------------------
(* get_redis_client for the first time: one attempt to connect.  Later     *)
(* calls return the client as it is.                                       *)
ConnectRedis ==
    /\ client = "absent"
    /\ client' = IF redisUp THEN "connected" ELSE "lost"
    /\ UNCHANGED <<redisUp, monitor, endpoint, services>>

StartPeriodicChecks ==
    /\ client # "absent"
    /\ monitor = "stopped"
    /\ monitor' = "database"
    /\ UNCHANGED <<redisUp, client, endpoint, services>>

(* The database check ends, never well: a reachable database is answered   *)
(* by awaiting an integer, which raises (database.py:278).  Then the       *)
(* client is asked, which does not ping when it is not connected.          *)
DatabaseChecked ==
    /\ monitor = "database"
    /\ LET checked == [services EXCEPT !["database"] = Failed(@)]
       IN  IF client = "connected"
           THEN monitor' = "pinging" /\ services' = checked
           ELSE /\ monitor' = "sleeping"
                /\ services' = [checked EXCEPT !["redis"] = Failed(@)]
    /\ UNCHANGED <<redisUp, client, endpoint>>

MonitorPinged ==
    /\ monitor = "pinging"
    /\ monitor' = "sleeping"
    /\ IF redisUp
       THEN services' = [services EXCEPT !["redis"] = Succeeded(@)] /\ UNCHANGED client
       ELSE services' = [services EXCEPT !["redis"] = Failed(@)] /\ client' = "lost"
    /\ UNCHANGED <<redisUp, endpoint>>

(* The sleep is over, and the loop runs on while _running.  The mutant     *)
(* leaves it when the last check failed.                                   *)
LoopStaysAfterSuccess == services["redis"].failures = 0
LoopStays == TRUE

MonitorSleeps ==
    /\ monitor = "sleeping"
    /\ monitor' = IF LoopStays THEN "database" ELSE "sleeping"
    /\ UNCHANGED <<redisUp, client, endpoint, services>>

(* A health request: it pings if the client says it is connected, and a    *)
(* ping that fails marks the client, but is not recorded.                  *)
EndpointAsks ==
    /\ client # "absent"
    /\ endpoint = "idle"
    /\ endpoint' = IF client = "connected" THEN "pinging" ELSE "idle"
    /\ UNCHANGED <<redisUp, client, monitor, services>>

EndpointPinged ==
    /\ endpoint = "pinging"
    /\ endpoint' = "idle"
    /\ client' = IF redisUp THEN client ELSE "lost"
    /\ UNCHANGED <<redisUp, monitor, services>>

(* Shutdown, when the server has answered its requests: the checks are     *)
(* cancelled, then the client is closed.  The records stay.                *)
ShutDownHealth ==
    /\ endpoint = "idle"
    /\ client # "absent"
    /\ monitor' = "stopped"
    /\ client' = "absent"
    /\ UNCHANGED <<redisUp, endpoint, services>>

RedisChanges ==
    /\ redisUp' = ~ redisUp
    /\ UNCHANGED <<client, monitor, endpoint, services>>

MonitorStep == DatabaseChecked \/ MonitorPinged \/ MonitorSleeps

HealthNext ==
    \/ ConnectRedis \/ StartPeriodicChecks \/ MonitorStep
    \/ EndpointAsks \/ EndpointPinged \/ ShutDownHealth \/ RedisChanges

(* The checks' task runs: its awaits all time out in the end.              *)
HealthFairness == WF_healthVars(MonitorStep)

HealthSpec == HealthInit /\ [][HealthNext]_healthVars /\ HealthFairness
-----------------------------------------------------------------------------
(* A client that has lost Redis, even if a request noticed it and recorded *)
(* nothing, is in the end reported as unhealthy, unless the checks are     *)
(* stopped (health_monitor.py:285-355).                                    *)
LossIsReported ==
    client = "lost" /\ monitor # "stopped"
        ~> services["redis"].status = "unhealthy" \/ monitor = "stopped"

(* What the client's documentation promises, "Automatic reconnection on    *)
(* failures" (redis_client.py:5): once Redis answers for good and the      *)
(* checks go on, the client is connected for good.                         *)
ReconnectsAfterOutage ==
    <>[](redisUp /\ monitor # "stopped") => <>[](client = "connected")
=============================================================================
