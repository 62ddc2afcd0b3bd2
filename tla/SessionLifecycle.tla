-------------------------- MODULE SessionLifecycle --------------------------
(***************************************************************************)
(* The scanner session: provisioned by scripts/auth_session.py, used by    *)
(* the gateway of the worker (app/telegram/gateway.py, session_store.py),  *)
(* revoked by /logout (app/bot/handlers/commands.py) through a job of the  *)
(* worker or a flag in the database, and reported through Redis to         *)
(* /authstatus and /health (app/services/status_service.py).               *)
(*                                                                         *)
(* Sessions are numbered in the order of their provisioning; 0 is none.    *)
(* The worker keeps two SessionStores, the one of its gateway and the one  *)
(* of its jobs, and each keeps the session it has read.                    *)
(***************************************************************************)
EXTENDS Naturals

CONSTANTS
  MaxSessions,  \* bound on the sessions provisioned
  SessionEnc,   \* SESSION_ENC of the worker, used when there is no file
  MaxFaults     \* bound on crashes, stops and outages of Redis

ASSUME ConstantsAssumption ==
  /\ MaxSessions \in Nat \ {0} /\ SessionEnc \in {0, 1} /\ MaxFaults \in Nat

Sessions == 1 .. MaxSessions
NoReport == [age |-> "none", connected |-> FALSE, present |-> FALSE]

VARIABLES
  revoked,    \* app_state.telegram_session in the database
  file,       \* the session in SESSION_FILE
  newest,     \* the last session provisioned
  uploading,  \* it is not in the file yet
  valid,      \* the sessions Telegram accepts
  up,         \* the worker: "no", "starting" (startup() runs) or "yes"
  gateway_store, job_store,   \* _plaintext of the two SessionStores
  client,     \* the session of _client
  connected,  \* _client.is_connected()
  dial,       \* how far connect() is, which holds _connect_lock
  present,    \* _session_present
  queued,     \* revoke-session is in arq's queue, where it stays while it runs
  job,        \* how far a run of it is, or the result that is kept
  logout,     \* history of the last logout: "dropped" if its job was lost, "wiped"
              \* if it wiped the file while this worker was up and no dial or upload
              \* was under way, or "none"
  redis,      \* Redis answers
  beat,       \* HEARTBEAT_WORKER_KEY: "none", "fresh" (60 s) or "old"
  report,     \* MT_PROTO_STATE_KEY
  faults

deployed == <<revoked, file, newest, uploading, valid>>
scanner == <<gateway_store, job_store, client, connected, dial, present>>
logouts == <<queued, job, logout>>
published == <<redis, beat, report>>
vars == <<deployed, scanner, up, logouts, published, faults>>

Init ==
  /\ revoked = FALSE /\ file = 0 /\ newest = SessionEnc /\ uploading = FALSE
  /\ valid = {SessionEnc} \ {0}
  /\ up = "no"
  /\ gateway_store = 0 /\ job_store = 0
  /\ client = 0 /\ connected = FALSE /\ dial = "no" /\ present = FALSE
  /\ queued = FALSE /\ job = "none" /\ logout = "none"
  /\ redis = TRUE /\ beat = "none" /\ report = NoReport
  /\ faults = 0

-----------------------------------------------------------------------------
(* Provisioning, and what happens to sessions at Telegram.                 *)

(* The script logs in and clears the flag, if it can reach the database.   *)
Provision ==
  /\ newest < MaxSessions /\ ~uploading
  /\ newest' = newest + 1
  /\ valid' = valid \cup {newest'}
  /\ uploading' = TRUE
  /\ revoked' \in {FALSE, revoked}
  /\ UNCHANGED <<file, scanner, up, logouts, published, faults>>

(* The file is put in its place; an operator clears a flag that is left.   *)
Upload ==
  /\ uploading
  /\ file' = newest
  /\ uploading' = FALSE
  /\ revoked' = FALSE
  /\ UNCHANGED <<newest, valid, scanner, up, logouts, published, faults>>

(* "Settings -> Devices -> terminate".                                     *)
Terminate(s) ==
  /\ s \in valid
  /\ valid' = valid \ {s}
  /\ UNCHANGED <<revoked, file, newest, uploading, scanner, up, logouts, published, faults>>

-----------------------------------------------------------------------------
(* The worker.  connect() is one caller at a time; it is called at start-up*)
(* and by every call to Telegram.                                          *)

State(c) == [age |-> "fresh", connected |-> c, present |-> present]

ReadFromSecrets == IF file # 0 THEN file ELSE SessionEnc
Load(store) == IF store # 0 THEN store ELSE ReadFromSecrets

Start ==
  /\ up = "no"
  /\ up' = "starting"
  /\ job_store' = ReadFromSecrets
  /\ present' = (job_store' # 0)
  /\ dial' = "locked"
  /\ UNCHANGED <<deployed, gateway_store, client, connected, logouts, published, faults>>

StartupReports ==
  /\ up = "starting" /\ dial = "no"
  /\ up' = "yes"
  /\ report' = IF redis THEN State(connected) ELSE report
  /\ UNCHANGED <<deployed, scanner, logouts, redis, beat, faults>>

Connect ==
  /\ up = "yes" /\ dial = "no" /\ ~connected
  /\ dial' = "locked"
  /\ UNCHANGED <<deployed, gateway_store, job_store, client, connected, present, up, logouts, published, faults>>

(* Mutant: the flag only counts where no session was read yet.             *)
CheckFlagOnce ==
  /\ dial = "locked"
  /\ dial' = IF revoked /\ gateway_store = 0 THEN "no" ELSE "checked"
  /\ UNCHANGED <<deployed, gateway_store, job_store, client, connected, present, up, logouts, published, faults>>

CheckFlag ==
  /\ dial = "locked"
  /\ dial' = IF revoked THEN "no" ELSE "checked"
  /\ UNCHANGED <<deployed, gateway_store, job_store, client, connected, present, up, logouts, published, faults>>

(* The flag cannot be read.  (At start-up that ends the worker: a Crash.)  *)
FlagUnreadable ==
  /\ up = "yes" /\ dial = "locked"
  /\ dial' = "no"
  /\ UNCHANGED <<deployed, gateway_store, job_store, client, connected, present, up, logouts, published, faults>>

(* A client that exists is used again, with the session it was made with.  *)
LoadSession ==
  /\ dial = "checked"
  /\ gateway_store' = Load(gateway_store)
  /\ IF gateway_store' = 0 THEN dial' = "no" /\ client' = client
     ELSE dial' = "dialing" /\ client' = IF client = 0 THEN gateway_store' ELSE client
  /\ UNCHANGED <<deployed, job_store, connected, present, up, logouts, published, faults>>

DialSucceeds ==
  /\ dial = "dialing"
  /\ connected' = TRUE /\ dial' = "asking"
  /\ UNCHANGED <<deployed, gateway_store, job_store, client, present, up, logouts, published, faults>>

(* get_me: a session that Telegram does not accept costs the client.       *)
GetMe ==
  /\ dial = "asking"
  /\ dial' = "no"
  /\ IF connected /\ client \notin valid THEN client' = 0 /\ connected' = FALSE
     ELSE UNCHANGED <<client, connected>>
  /\ UNCHANGED <<deployed, gateway_store, job_store, present, up, logouts, published, faults>>

(* A failed get_me may leave the client connected.                         *)
DialFails ==
  /\ dial \in {"dialing", "asking"}
  /\ dial' = "no" /\ connected' \in {FALSE, connected}
  /\ UNCHANGED <<deployed, gateway_store, job_store, client, present, up, logouts, published, faults>>

(* Telethon gives up reconnecting.                                         *)
ConnectionLost ==
  /\ connected /\ dial = "no" /\ faults < MaxFaults
  /\ faults' = faults + 1
  /\ connected' = FALSE
  /\ UNCHANGED <<deployed, gateway_store, job_store, client, dial, present, up, logouts, published>>

(* The process ends, and what it held is gone.                             *)
Ends ==
  /\ up # "no" /\ faults < MaxFaults
  /\ faults' = faults + 1
  /\ up' = "no"
  /\ gateway_store' = 0 /\ job_store' = 0
  /\ client' = 0 /\ connected' = FALSE /\ dial' = "no" /\ present' = FALSE

Runs == {"disconnected", "marked", "wiped"}
Result == IF job = "kept" THEN "kept" ELSE "none"

(* Mutant: a job is taken out of the queue when it is started.             *)
AgainNever ==
  /\ queued' = (queued /\ job \notin Runs) /\ job' = Result
  /\ logout' = IF job \in Runs /\ ~queued THEN "dropped" ELSE "none"

(* A job that was started is in the queue until it has ended, and is run   *)
(* again, unless Redis lost it.                                            *)
Again ==
  /\ queued' = queued /\ job' = Result
  /\ logout' = IF job \in Runs /\ ~queued THEN "dropped" ELSE "none"

Crash ==
  /\ Ends
  /\ Again
  /\ UNCHANGED <<deployed, published>>

Shutdown ==
  /\ Ends
  /\ Again
  /\ report' = IF redis THEN State(FALSE) ELSE report
  /\ UNCHANGED <<deployed, redis, beat>>

-----------------------------------------------------------------------------
(* Logout: the bot, and the job revoke-session.                            *)

(* The fixed job id makes arq ignore a second logout while the first is    *)
(* queued, running or kept; the bot says "queued" all the same.  Without   *)
(* Redis the bot sets the flag, or fails to.                               *)
ConfirmLogout ==
  /\ IF redis THEN revoked' = revoked /\ queued' = (queued \/ job # "kept")
     ELSE revoked' \in {TRUE, revoked} /\ queued' = queued
  /\ logout' = IF queued' # queued THEN "none" ELSE logout
  /\ UNCHANGED <<file, newest, uploading, valid, scanner, up, job, published, faults>>

Disconnect ==
  /\ up = "yes" /\ redis /\ queued /\ job = "none"
  /\ job' = "disconnected"
  /\ connected' = FALSE
  /\ UNCHANGED <<deployed, gateway_store, job_store, client, dial, present, up, queued, logout, published, faults>>

(* arq takes the job out of the queue and keeps its result; without Redis  *)
(* it can do neither, and runs the job again.                              *)
Finish ==
  IF redis THEN queued' = FALSE /\ job' = "kept" ELSE queued' = queued /\ job' = "none"

MarkRevoked ==
  /\ job = "disconnected"
  /\ job' = "marked"
  /\ revoked' = TRUE
  /\ UNCHANGED <<file, newest, uploading, valid, scanner, up, queued, logout, published, faults>>

(* The database fails, or job_timeout strikes: the job has ended, with the *)
(* flag not set and the file in place.                                     *)
MarkFails ==
  /\ job = "disconnected"
  /\ Finish
  /\ logout' = IF queued' THEN logout ELSE "dropped"
  /\ UNCHANGED <<deployed, scanner, up, published, faults>>

(* Mutant: both stores forget the session, and the client is kept.         *)
WipeBoth ==
  /\ job = "marked"
  /\ job' = "wiped"
  /\ logout' = IF dial = "no" /\ ~uploading THEN "wiped" ELSE "none"
  /\ file' = 0 /\ job_store' = 0 /\ gateway_store' = 0
  /\ UNCHANGED <<revoked, newest, uploading, valid, client, connected, dial, present,
                 up, queued, published, faults>>

(* The store of the jobs forgets the session, the one of the gateway not.  *)
WipeFile ==
  /\ job = "marked"
  /\ job' = "wiped"
  /\ logout' = IF dial = "no" /\ ~uploading THEN "wiped" ELSE "none"
  /\ file' = 0 /\ job_store' = 0
  /\ UNCHANGED <<revoked, newest, uploading, valid, gateway_store, client, connected, dial, present,
                 up, queued, published, faults>>

ReportRevoked ==
  /\ job = "wiped"
  /\ Finish
  /\ report' = IF redis THEN State(FALSE) ELSE report
  /\ UNCHANGED <<deployed, scanner, up, logout, redis, beat, faults>>

KeptExpires ==
  /\ job = "kept"
  /\ job' = "none"
  /\ UNCHANGED <<deployed, scanner, up, queued, logout, published, faults>>

-----------------------------------------------------------------------------
(* What the worker publishes, and what others see of it.                   *)

(* Mutant: the connection is cached like the rest of what is published.    *)
HeartbeatOfCached ==
  /\ up = "yes" /\ redis
  /\ beat' = "fresh"
  /\ report' = State(IF report = NoReport THEN connected ELSE report.connected)
  /\ UNCHANGED <<deployed, scanner, up, logouts, redis, faults>>

Heartbeat ==
  /\ up = "yes" /\ redis
  /\ beat' = "fresh"
  /\ report' = State(connected)
  /\ UNCHANGED <<deployed, scanner, up, logouts, redis, faults>>

(* Mutant: the time in the key is not looked at, and the key never expires.*)
OlderNever(age) == age

(* Time: a key is old after a minute, and gone after five.                 *)
Older(age) == IF age = "fresh" THEN "old" ELSE "none"

BeatAges ==
  /\ beat # "none"
  /\ beat' = Older(beat)
  /\ UNCHANGED <<deployed, scanner, up, logouts, redis, report, faults>>

ReportAges ==
  /\ report # NoReport
  /\ report' = IF report.age = "fresh" THEN [report EXCEPT !.age = "old"] ELSE NoReport
  /\ UNCHANGED <<deployed, scanner, up, logouts, redis, beat, faults>>

RedisFails ==
  /\ redis /\ faults < MaxFaults
  /\ redis' = FALSE /\ faults' = faults + 1
  /\ UNCHANGED <<deployed, scanner, up, logouts, beat, report>>

RedisReturns ==
  /\ ~redis
  /\ redis' = TRUE
  /\ UNCHANGED <<deployed, scanner, up, logouts, beat, report, faults>>

(* It has no volume: a restart may lose the queue, the results and what    *)
(* was published.  A run that has begun goes on.                           *)
RedisReturnsEmpty ==
  /\ ~redis
  /\ redis' = TRUE /\ beat' = "none" /\ report' = NoReport
  /\ queued' = FALSE /\ job' = IF job = "kept" THEN "none" ELSE job
  /\ logout' = IF queued /\ job = "none" THEN "dropped" ELSE logout
  /\ UNCHANGED <<deployed, scanner, up, faults>>

(* get_mtproto_state, /authstatus and the worker's part of /health.  (While*)
(* Redis is down they say this or, in a bot that had reached Redis before, *)
(* fail with a ConnectionError and say nothing.)                           *)
Reported == IF redis THEN report ELSE NoReport

SessionLabel ==
  CASE revoked -> "REVOKED"
    [] ~revoked /\ Reported.age = "none" -> "UNKNOWN"
    [] ~revoked /\ Reported.age # "none" /\ Reported.present -> "PRESENT"
    [] OTHER -> "ABSENT"

AuthStatus == [session |-> SessionLabel, connected |-> Reported.connected]

Health == [ready |-> redis /\ beat = "fresh", mtproto |-> Reported.connected]

Next ==
  \/ Provision \/ Upload \/ \E s \in Sessions : Terminate(s)
  \/ Start \/ StartupReports \/ Connect \/ CheckFlag \/ FlagUnreadable \/ LoadSession
  \/ DialSucceeds \/ GetMe \/ DialFails
  \/ ConnectionLost \/ Crash \/ Shutdown
  \/ ConfirmLogout \/ Disconnect \/ MarkRevoked \/ MarkFails \/ WipeFile \/ ReportRevoked \/ KeptExpires
  \/ Heartbeat \/ BeatAges \/ ReportAges \/ RedisFails \/ RedisReturns \/ RedisReturnsEmpty

Spec == Init /\ [][Next]_vars

(* Redis is restarted, cron jobs and queued jobs get a slot, started steps *)
(* end, time passes.  Nobody has to log out, to provision a session, to    *)
(* call Telegram or to start a worker that has ended.                      *)
Fairness ==
  /\ WF_vars(StartupReports) /\ WF_vars(RedisReturns)
  /\ WF_vars(Heartbeat) /\ WF_vars(BeatAges) /\ WF_vars(ReportAges)
  /\ WF_vars(CheckFlag) /\ WF_vars(LoadSession) /\ WF_vars(DialSucceeds \/ DialFails) /\ WF_vars(GetMe)
  /\ WF_vars(Disconnect) /\ WF_vars(MarkRevoked) /\ WF_vars(WipeFile) /\ WF_vars(ReportRevoked)

FairSpec == Spec /\ Fairness

-----------------------------------------------------------------------------
(* Properties.                                                             *)

(* The client has the session of its store, no process that is down holds  *)
(* a session, and a logout that is in the queue is not one that was lost.  *)
TypeOK ==
  /\ revoked \in BOOLEAN /\ uploading \in BOOLEAN /\ up \in {"no", "starting", "yes"} /\ redis \in BOOLEAN
  /\ present \in BOOLEAN /\ connected \in BOOLEAN
  /\ file \in 0 .. newest /\ newest \in 0 .. MaxSessions /\ valid \subseteq 1 .. newest
  /\ gateway_store \in 0 .. newest /\ job_store \in 0 .. newest
  /\ client \in {0, gateway_store} /\ (connected => client # 0)
  /\ dial \in {"no", "locked", "checked", "dialing", "asking"}
  /\ queued \in BOOLEAN /\ job \in {"none", "kept"} \cup Runs
  /\ logout \in {"none", "dropped", "wiped"} /\ (queued => logout # "dropped")
  /\ up = "no" => gateway_store = 0 /\ job_store = 0 /\ dial = "no" /\ job \in {"none", "kept"}
  /\ beat \in {"none", "fresh", "old"}
  /\ report \in {NoReport} \cup [age : {"fresh", "old"}, connected : BOOLEAN, present : BOOLEAN]
  /\ faults \in 0 .. MaxFaults

(* "The worker refuses to reconnect while the flag is set" (SECURITY.md:59)*)
(* once no dial that read the flag before is under way, through restarts,  *)
(* lost connections and uploads.                                           *)
Down == revoked /\ ~connected /\ dial \in {"no", "locked"}

RevokedStaysDown == [][Down /\ revoked' => Down']_vars

(* A logout that was queued marks the session revoked in the end, though   *)
(* the worker crashes or stops on the way, or is not up at all for long,   *)
(* unless its job was lost with Redis or ended by a failing database       *)
(* (session_store.py:109-114, functions.py:253).                           *)
LogoutIsMarked ==
  []<>(up = "yes") => (queued /\ job = "none" ~> revoked \/ logout = "dropped")

(* What /authstatus and /health say of the connection comes true: a        *)
(* scanner that is lost does not stay CONNECTED, and one that is up is     *)
(* shown.                                                                  *)
StatusFollows ==
  \A b \in BOOLEAN :
    /\ <>[](connected = b /\ redis) => []<>(AuthStatus.connected = b)
    /\ <>[](~connected) => <>[](~AuthStatus.connected /\ ~Health.mtproto)

(* What /health says of the worker comes true: one that is gone does not   *)
(* stay ready, and one that is up becomes ready again however long its     *)
(* heartbeat had to wait for a slot.                                       *)
ReadyFollows ==
  /\ <>[](up = "yes" /\ redis) => []<>Health.ready
  /\ <>[](up # "yes" \/ ~redis) => <>[]~Health.ready

(* "after `/logout` wipes the file, a freshly provisioned session (new     *)
(* `SESSION_FILE` / `SESSION_ENC` + cleared revoked flag) is picked up on  *)
(* the next call without needing a worker restart" (session_store.py:36-39)*)
FreshIsPickedUp ==
  [][dial = "checked" /\ dial' = "dialing" /\ logout = "wiped" /\ file # 0 => client' = file]_vars
=============================================================================
