----------------------------- MODULE HealthProbe -----------------------------
(***************************************************************************)
(* The health endpoints (api/health.go): the detailed check, which asks    *)
(* the dependencies one after the other under one deadline, and the        *)
(* readiness check, while the dependencies come and go.                    *)
(*                                                                         *)
(* A call of a dependency takes no time, is slow, or hangs until the       *)
(* deadline of the request, after which each further call fails at once.   *)
(***************************************************************************)
EXTENDS Integers, Sequences

CONSTANT MaxOutages   \* bound on the changes of dependencies

VARIABLES
  dependency,    \* name -> "up", "slow", "hangs", "down" or "absent"
  outages,       \* changes so far
  detailed,      \* the HealthDetailed in progress
  report         \* the last answer of HealthDetailed and what each call met

healthVars == <<dependency, outages, detailed, report>>

Asked == <<"postgresql", "redis", "minio">>
Names == {Asked[i] : i \in DOMAIN Asked}
Conditions == {"up", "slow", "hangs", "down"}

NotAsking == [at |-> 0]

HealthInit ==
  /\ dependency \in [Names -> Conditions \cup {"absent"}]
  /\ outages = 0
  /\ detailed = NotAsking
  /\ report = [status |-> "none"]

\* a store that was not set up at the start stays absent
Change(n, condition) ==
  /\ outages < MaxOutages /\ dependency[n] \notin {"absent", condition}
  /\ dependency' = [dependency EXCEPT ![n] = condition]
  /\ outages' = outages + 1
  /\ UNCHANGED <<detailed, report>>

----------------------------------------------------------------------------
Answered(condition, expired) ==
  CASE condition = "up" /\ ~expired -> "healthy"
    [] condition = "slow" /\ ~expired -> "degraded"
    [] OTHER -> "unhealthy"

checkPostgres(condition, expired) == Answered(condition, expired)

checkRedis(condition, expired) == Answered(condition, expired)

\* the object store is optional
checkMinio(condition, expired) == IF condition = "absent" THEN "degraded" ELSE Answered(condition, expired)

Check(n, expired) ==
  CASE n = "postgresql" -> checkPostgres(dependency[n], expired)
    [] n = "redis" -> checkRedis(dependency[n], expired)
    [] n = "minio" -> checkMinio(dependency[n], expired)

BeginDetailed ==
  /\ detailed = NotAsking
  /\ detailed' = [at |-> 1, expired |-> FALSE, found |-> << >>, met |-> << >>]
  /\ UNCHANGED <<dependency, outages, report>>

CheckNext ==
  LET n == Asked[detailed.at] IN
  /\ detailed # NotAsking /\ detailed.at <= Len(Asked)
  /\ detailed' = [at |-> detailed.at + 1,
                  expired |-> detailed.expired \/ dependency[n] = "hangs",
                  found |-> Append(detailed.found, Check(n, detailed.expired)),
                  met |-> Append(detailed.met, dependency[n])]
  /\ UNCHANGED <<dependency, outages, report>>

Having(found, status) == {i \in DOMAIN found : found[i] = status}

Overall_Majority(found) ==
  IF \A i \in DOMAIN found : found[i] = "unhealthy" THEN "unhealthy"
  ELSE IF Having(found, "degraded") # {} THEN "degraded" ELSE "healthy"

Overall(found) ==
  IF Having(found, "unhealthy") # {} THEN "unhealthy"
  ELSE IF Having(found, "degraded") # {} THEN "degraded" ELSE "healthy"

EndDetailed ==
  /\ detailed # NotAsking /\ detailed.at > Len(Asked)
  /\ report' = [status |-> Overall(detailed.found),
                http |-> IF Overall(detailed.found) = "unhealthy" THEN 503 ELSE 200,
                met |-> detailed.met]
  /\ detailed' = NotAsking
  /\ UNCHANGED <<dependency, outages>>

\* the code of Ready: the database alone decides, and no latency does
Ready(database) == IF database \in {"up", "slow"} THEN 200 ELSE 503

HealthNext ==
  \/ \E n \in Names, c \in Conditions : Change(n, c)
  \/ BeginDetailed \/ CheckNext \/ EndDetailed

HealthSpec == HealthInit /\ [][HealthNext]_healthVars

----------------------------------------------------------------------------
(* Dependencies that change while they are asked one after the other,      *)
(* under one deadline (health.go:75, 87-93) : 200 means that the database  *)
(* and Redis answered in time in this request, and the object store too    *)
(* unless there is none; 503 blames nobody wrongly, for some dependency of *)
(* this request did hang, was down or was never set up.                    *)
ReportIsEarned ==
  report.status # "none" =>
    /\ report.http = 200 =>
         /\ Ready(report.met[1]) = 200
         /\ report.met[2] \in {"up", "slow"}
         /\ report.met[3] \in {"up", "slow", "absent"}
    /\ report.http = 503 =>
         \/ \E i \in 1..3 : report.met[i] \in {"hangs", "down"}
         \/ \E i \in 1..2 : report.met[i] = "absent"
=============================================================================
