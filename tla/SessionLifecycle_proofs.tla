---------------------- MODULE SessionLifecycle_proofs ----------------------
(* Theorems about SessionLifecycle, for every number of sessions that are  *)
(* provisioned, with and without SESSION_ENC, and every number of crashes, *)
(* stops and outages.                                                      *)
EXTENDS SessionLifecycle, TLAPS

-----------------------------------------------------------------------------
(* The invariant, in four parts.  A dial that is past the session has a   *)
(* client, which is what lets it set connected; SESSION_ENC is the first   *)
(* session there is, which is what bounds the session that is read where   *)
(* there is no file.                                                       *)

Reports == {NoReport} \cup [age : {"fresh", "old"}, connected : BOOLEAN, present : BOOLEAN]

Flags ==
  /\ revoked \in BOOLEAN /\ uploading \in BOOLEAN /\ redis \in BOOLEAN
  /\ present \in BOOLEAN /\ connected \in BOOLEAN /\ queued \in BOOLEAN

Linked ==
  /\ connected => client # 0
  /\ dial \in {"dialing", "asking"} => client # 0

Ranges ==
  /\ up \in {"no", "starting", "yes"}
  /\ file \in 0 .. newest /\ newest \in 0 .. MaxSessions /\ valid \subseteq 1 .. newest
  /\ gateway_store \in 0 .. newest /\ job_store \in 0 .. newest /\ SessionEnc <= newest
  /\ client \in {0, gateway_store}
  /\ dial \in {"no", "locked", "checked", "dialing", "asking"}
  /\ job \in {"none", "kept"} \cup Runs
  /\ up = "no" => gateway_store = 0 /\ job_store = 0 /\ dial = "no" /\ job \in {"none", "kept"}
  /\ beat \in {"none", "fresh", "old"}
  /\ report \in Reports
  /\ faults \in 0 .. MaxFaults

(* The history of the last logout begins when one is put in the queue.     *)
Logged ==
  /\ logout \in {"none", "dropped", "wiped"}
  /\ queued => logout # "dropped"

TypeInv == Flags /\ Linked /\ Ranges /\ Logged

LEMMA TypeInvOK == TypeInv => TypeOK
BY DEF TypeInv, Flags, Linked, Ranges, Logged, TypeOK, Reports

LEMMA InitTypeInv == Init => TypeInv
<1>1. Init => Flags /\ Linked
  BY Zenon DEF Init, Flags, Linked
<1>2. Init => Ranges
  BY ConstantsAssumption DEF Init, Ranges, Reports
<1>3. Init => Logged
  BY DEF Init, Logged
<1> QED
  BY <1>1, <1>2, <1>3 DEF TypeInv

-----------------------------------------------------------------------------
LEMMA NextFlags ==
  ASSUME Flags, [Next]_vars PROVE Flags'
<1> USE DEF Flags, deployed, scanner, logouts, published
<1>1. CASE Provision
  BY <1>1, Zenon DEF Provision
<1>2. CASE Upload \/ (\E s \in Sessions : Terminate(s))
  BY <1>2, Zenon DEF Upload, Terminate
<1>3. CASE Start
  <2>1. present' \in BOOLEAN
    BY <1>3 DEF Start
  <2> QED
    BY <1>3, <2>1, Zenon DEF Start
<1>4. CASE StartupReports \/ Connect \/ CheckFlag \/ FlagUnreadable \/ LoadSession \/ DialSucceeds
  BY <1>4, Zenon DEF StartupReports, Connect, CheckFlag, FlagUnreadable, LoadSession, DialSucceeds
<1>5. CASE GetMe \/ DialFails \/ ConnectionLost
  BY <1>5, Zenon DEF GetMe, DialFails, ConnectionLost
<1>6. CASE Crash \/ Shutdown
  BY <1>6, Zenon DEF Crash, Shutdown, Ends, Again
<1>7. CASE ConfirmLogout
  <2>1. queued' \in BOOLEAN
    BY <1>7 DEF ConfirmLogout
  <2>2. revoked' \in BOOLEAN
    BY <1>7, Zenon DEF ConfirmLogout
  <2> QED
    BY <1>7, <2>1, <2>2, Zenon DEF ConfirmLogout
<1>8. CASE Disconnect \/ MarkRevoked \/ MarkFails \/ WipeFile \/ ReportRevoked \/ KeptExpires
  <2>1. queued' = FALSE \/ queued' = queued
    BY <1>8, Zenon DEF Disconnect, MarkRevoked, MarkFails, WipeFile, ReportRevoked, KeptExpires, Finish
  <2> QED
    BY <1>8, <2>1, Zenon DEF Disconnect, MarkRevoked, MarkFails, WipeFile, ReportRevoked, KeptExpires
<1>9. CASE Heartbeat \/ BeatAges \/ ReportAges \/ RedisFails \/ RedisReturns \/ RedisReturnsEmpty
  BY <1>9, Zenon DEF Heartbeat, BeatAges, ReportAges, RedisFails, RedisReturns, RedisReturnsEmpty
<1>10. CASE UNCHANGED vars
  BY <1>10, Zenon DEF vars
<1> QED
  BY <1>1, <1>2, <1>3, <1>4, <1>5, <1>6, <1>7, <1>8, <1>9, <1>10 DEF Next

(* Only a dial connects, and nothing but the end of the process and an     *)
(* answer to get_me, which disconnect, too, takes the client away.         *)
LEMMA NextLinked ==
  ASSUME TypeInv, [Next]_vars PROVE Linked'
<1> USE DEF Linked, TypeInv, deployed, scanner, logouts, published
<1>1. ASSUME UNCHANGED <<connected, client, dial>> PROVE Linked'
  <2>1. connected' => client' # 0
    BY <1>1, Zenon
  <2>2. dial' \in {"dialing", "asking"} => client' # 0
    BY <1>1
  <2> QED
    BY <2>1, <2>2
<1>2. ASSUME connected' = FALSE \/ UNCHANGED <<connected, client>>, dial' \notin {"dialing", "asking"}
      PROVE  Linked'
  <2>1. connected' => client' # 0
    BY <1>2, Zenon
  <2> QED
    BY <1>2, <2>1
<1>3. CASE Provision \/ Upload \/ (\E s \in Sessions : Terminate(s)) \/ StartupReports
  BY <1>1, <1>3 DEF Provision, Upload, Terminate, StartupReports
<1>4. CASE Start \/ Connect \/ CheckFlag \/ FlagUnreadable
  <2>1. UNCHANGED <<connected, client>>
    BY <1>4 DEF Start, Connect, CheckFlag, FlagUnreadable
  <2>2. dial' \notin {"dialing", "asking"}
    BY <1>4 DEF Start, Connect, CheckFlag, FlagUnreadable
  <2> QED
    BY <1>2, <2>1, <2>2
<1>5. CASE LoadSession
  <2>1. connected' = connected /\ (client # 0 => client' = client)
    BY <1>5 DEF LoadSession
  <2>2. dial' \in {"dialing", "asking"} => client' # 0
    BY <1>5 DEF LoadSession
  <2>3. connected' => client' # 0
    BY <2>1, Zenon
  <2> QED
    BY <2>2, <2>3
<1>6. CASE DialSucceeds
  <2>1. client # 0 /\ client' = client
    BY <1>6 DEF DialSucceeds
  <2> QED
    BY <2>1
<1>7. CASE GetMe \/ DialFails
  <2>1. dial' \notin {"dialing", "asking"}
    BY <1>7 DEF GetMe, DialFails
  <2>2. connected' = FALSE \/ UNCHANGED <<connected, client>>
    BY <1>7, Zenon DEF GetMe, DialFails
  <2> QED
    BY <1>2, <2>1, <2>2
<1>8. CASE ConnectionLost \/ Disconnect
  <2>1. connected' = FALSE /\ UNCHANGED <<dial, client>>
    BY <1>8, Zenon DEF ConnectionLost, Disconnect
  <2>2. connected' => client' # 0
    BY <2>1, Zenon
  <2>3. dial' \in {"dialing", "asking"} => client' # 0
    BY <2>1
  <2> QED
    BY <2>2, <2>3
<1>9. CASE Crash \/ Shutdown
  <2>1. connected' = FALSE /\ dial' = "no"
    BY <1>9, Zenon DEF Crash, Shutdown, Ends
  <2>2. dial' \notin {"dialing", "asking"}
    BY <2>1
  <2> QED
    BY <1>2, <2>1, <2>2, Zenon
<1>10. CASE ConfirmLogout \/ MarkRevoked \/ MarkFails \/ WipeFile \/ ReportRevoked \/ KeptExpires
  BY <1>1, <1>10 DEF ConfirmLogout, MarkRevoked, MarkFails, WipeFile, ReportRevoked, KeptExpires
<1>11. CASE Heartbeat \/ BeatAges \/ ReportAges \/ RedisFails \/ RedisReturns \/ RedisReturnsEmpty
  BY <1>1, <1>11 DEF Heartbeat, BeatAges, ReportAges, RedisFails, RedisReturns, RedisReturnsEmpty
<1>12. CASE UNCHANGED vars
  BY <1>1, <1>12 DEF vars
<1> QED
  BY <1>3, <1>4, <1>5, <1>6, <1>7, <1>8, <1>9, <1>10, <1>11, <1>12 DEF Next

-----------------------------------------------------------------------------
(* What is read and reported.                                              *)
LEMMA LoadType ==
  ASSUME Ranges
  PROVE  /\ ReadFromSecrets \in 0 .. newest
         /\ Load(gateway_store) \in 0 .. newest
         /\ client # 0 => Load(gateway_store) = client
BY ConstantsAssumption DEF Ranges, ReadFromSecrets, Load

LEMMA ReportType ==
  ASSUME Flags, NEW c \in BOOLEAN
  PROVE  State(c) \in Reports
BY DEF State, Reports, Flags

LEMMA SecretsRanges ==
  ASSUME Ranges, Provision \/ Upload \/ \E s \in Sessions : Terminate(s) PROVE Ranges'
<1> USE ConstantsAssumption DEF scanner, logouts, published
<1>1. CASE Provision
  <2>1. /\ newest' = newest + 1 /\ newest \in Nat /\ newest' \in 0 .. MaxSessions
        /\ 0 .. newest \subseteq 0 .. newest' /\ 1 .. newest \subseteq 1 .. newest' /\ newest' \in 1 .. newest'
    BY <1>1 DEF Provision, Ranges
  <2>2. valid' \subseteq 1 .. newest'
    BY <1>1, <2>1 DEF Provision, Ranges
  <2>3. SessionEnc <= newest'
    BY <2>1 DEF Ranges
  <2>4. file \in 0 .. newest' /\ gateway_store \in 0 .. newest' /\ job_store \in 0 .. newest'
    BY <2>1 DEF Ranges
  <2>5. UNCHANGED <<file, scanner, up, logouts, published, faults>>
    BY <1>1 DEF Provision
  <2> QED
    BY <2>1, <2>2, <2>3, <2>4, <2>5 DEF Ranges
<1>2. CASE Upload
  <2>1. file' \in 0 .. newest
    BY <1>2 DEF Upload, Ranges
  <2> QED
    BY <1>2, <2>1 DEF Upload, Ranges
<1>3. ASSUME NEW s \in Sessions, Terminate(s) PROVE Ranges'
  BY <1>3 DEF Terminate, Ranges
<1> QED
  BY <1>1, <1>2, <1>3

LEMMA WorkerRanges ==
  ASSUME Flags, Ranges,
         \/ Start \/ StartupReports \/ Connect \/ CheckFlag \/ FlagUnreadable \/ LoadSession \/ DialSucceeds
         \/ GetMe \/ DialFails \/ ConnectionLost \/ Crash \/ Shutdown
  PROVE  Ranges'
<1> USE DEF deployed, scanner, logouts, published
<1>1. CASE Start
  BY <1>1, LoadType DEF Start, Ranges
<1>2. CASE StartupReports
  <2>1. report' \in Reports
    BY <1>2, ReportType DEF StartupReports, Flags, Ranges
  <2> QED
    BY <1>2, <2>1 DEF StartupReports, Ranges
<1>3. CASE Connect \/ CheckFlag \/ FlagUnreadable \/ DialSucceeds
  BY <1>3 DEF Connect, CheckFlag, FlagUnreadable, DialSucceeds, Ranges
<1>4. CASE LoadSession
  <2>1. gateway_store' \in 0 .. newest /\ (client # 0 => gateway_store' = client)
    BY <1>4, LoadType DEF LoadSession
  <2>2. client' \in {0, gateway_store'} /\ dial' \in {"no", "dialing"} /\ up # "no"
    BY <1>4, <2>1 DEF LoadSession, Ranges
  <2>3. UNCHANGED <<deployed, job_store, up, logouts, published, faults>>
    BY <1>4 DEF LoadSession
  <2> QED
    BY <2>1, <2>2, <2>3 DEF Ranges
<1>5. CASE GetMe
  BY <1>5 DEF GetMe, Ranges
<1>6. CASE DialFails
  BY <1>6 DEF DialFails, Ranges
<1>7. CASE ConnectionLost
  <2>1. faults' \in 0 .. MaxFaults
    BY <1>7, ConstantsAssumption DEF ConnectionLost, Ranges
  <2> QED
    BY <1>7, <2>1 DEF ConnectionLost, Ranges
<1>8. CASE Crash \/ Shutdown
  <2>1. job' \in {"none", "kept"}
    BY <1>8 DEF Crash, Shutdown, Again, Result
  <2>2. report' \in Reports
    BY <1>8, ReportType DEF Crash, Shutdown, Ranges
  <2>3. faults' \in 0 .. MaxFaults
    <3>1. faults < MaxFaults /\ faults' = faults + 1
      BY <1>8 DEF Crash, Shutdown, Ends
    <3> QED
      BY <3>1, ConstantsAssumption DEF Ranges
  <2>4. 0 \in 0 .. newest
    BY DEF Ranges
  <2>5. /\ UNCHANGED <<deployed, beat>>
        /\ up' = "no" /\ gateway_store' = 0 /\ job_store' = 0 /\ client' = 0 /\ dial' = "no"
    BY <1>8 DEF Crash, Shutdown, Ends
  <2> QED
    BY <2>1, <2>2, <2>3, <2>4, <2>5 DEF Ranges
<1> QED
  BY <1>1, <1>2, <1>3, <1>4, <1>5, <1>6, <1>7, <1>8

LEMMA LogoutRanges ==
  ASSUME Flags, Ranges,
         \/ ConfirmLogout \/ Disconnect \/ MarkRevoked \/ MarkFails \/ WipeFile \/ ReportRevoked \/ KeptExpires
         \/ Heartbeat \/ BeatAges \/ ReportAges \/ RedisFails \/ RedisReturns \/ RedisReturnsEmpty
  PROVE  Ranges'
<1> USE DEF deployed, scanner, logouts, published
<1>1. CASE ConfirmLogout \/ Disconnect \/ MarkRevoked \/ MarkFails \/ KeptExpires
  BY <1>1 DEF ConfirmLogout, Disconnect, MarkRevoked, MarkFails, Finish, KeptExpires, Runs, Ranges
<1>2. CASE WipeFile
  <2>1. 0 \in 0 .. newest
    BY DEF Ranges
  <2> QED
    BY <1>2, <2>1 DEF WipeFile, Runs, Ranges
<1>3. CASE ReportRevoked \/ Heartbeat
  <2>1. report' \in Reports
    BY <1>3, ReportType DEF ReportRevoked, Heartbeat, Flags, Ranges
  <2> QED
    BY <1>3, <2>1 DEF ReportRevoked, Heartbeat, Finish, Ranges
<1>4. CASE ReportAges
  <2> DEFINE Sent == [age : {"fresh", "old"}, connected : BOOLEAN, present : BOOLEAN]
  <2>1. report \in Sent
    BY <1>4 DEF ReportAges, Ranges, Reports
  <2>2. [report EXCEPT !.age = "old"] \in Sent
    BY <2>1
  <2>3. report' \in Reports
    BY <1>4, <2>2 DEF ReportAges, Reports
  <2> QED
    BY <1>4, <2>3 DEF ReportAges, Ranges
<1>5. CASE BeatAges \/ RedisReturns \/ RedisReturnsEmpty
  BY <1>5 DEF BeatAges, RedisReturns, RedisReturnsEmpty, Older, Ranges, Reports
<1>6. CASE RedisFails
  <2>1. faults' \in 0 .. MaxFaults
    BY <1>6, ConstantsAssumption DEF RedisFails, Ranges
  <2> QED
    BY <1>6, <2>1 DEF RedisFails, Ranges
<1> QED
  BY <1>1, <1>2, <1>3, <1>4, <1>5, <1>6

(* A logout is lost when it leaves the queue without a result.             *)
LEMMA NextLogged ==
  ASSUME Flags, Logged, [Next]_vars PROVE Logged'
<1> USE DEF Flags, Logged, deployed, scanner, logouts, published
<1>1. ASSUME UNCHANGED <<queued, logout>> PROVE Logged'
  BY <1>1
<1>2. CASE Crash \/ Shutdown
  <2>1. /\ queued' = queued
        /\ logout' = IF job \in Runs /\ ~queued THEN "dropped" ELSE "none"
    BY <1>2, Zenon DEF Crash, Shutdown, Again
  <2>2. logout' \in {"none", "dropped", "wiped"}
    BY <2>1
  <2>3. queued => logout' = "none"
    BY <2>1, Zenon
  <2>4. queued' => logout' # "dropped"
    <3>1. queued' => logout' = "none"
      BY <2>1, <2>3, Zenon
    <3> QED
      BY <3>1
  <2> QED
    BY <2>2, <2>4
<1>3. CASE ConfirmLogout
  <2>1. logout' = IF queued' # queued THEN "none" ELSE logout
    BY <1>3, Zenon DEF ConfirmLogout
  <2>2. CASE queued' = queued
    <3>1. logout' = logout
      BY <2>1, <2>2, Zenon
    <3> QED
      BY <1>1, <2>2, <3>1, Zenon
  <2>3. CASE queued' # queued
    <3>1. logout' = "none"
      BY <2>1, <2>3, Zenon
    <3> QED
      BY <3>1
  <2> QED
    BY <2>2, <2>3, Zenon
<1>4. CASE MarkFails
  <2>1. logout' = IF queued' THEN logout ELSE "dropped"
    BY <1>4, Zenon DEF MarkFails
  <2>2. logout' \in {"none", "dropped", "wiped"}
    BY <2>1
  <2>3. queued' => queued /\ logout' = logout
    <3>1. queued' = FALSE \/ queued' = queued
      BY <1>4, Zenon DEF MarkFails, Finish
    <3> QED
      BY <2>1, <3>1, Zenon
  <2> QED
    BY <2>2, <2>3, Zenon
<1>5. CASE WipeFile
  <2>1. logout' = IF dial = "no" /\ ~uploading THEN "wiped" ELSE "none"
    BY <1>5, Zenon DEF WipeFile
  <2>2. logout' = "none" \/ logout' = "wiped"
    BY <2>1, Zenon
  <2> QED
    BY <2>2
<1>6. CASE ReportRevoked
  BY <1>6 DEF ReportRevoked, Finish
<1>7. CASE RedisReturnsEmpty
  BY <1>7 DEF RedisReturnsEmpty
<1>8. CASE Provision \/ Upload \/ \E s \in Sessions : Terminate(s)
  BY <1>1, <1>8 DEF Provision, Upload, Terminate
<1>9. CASE Start \/ StartupReports \/ Connect \/ CheckFlag \/ FlagUnreadable
  BY <1>1, <1>9 DEF Start, StartupReports, Connect, CheckFlag, FlagUnreadable
<1>10. CASE LoadSession \/ DialSucceeds \/ GetMe \/ DialFails \/ ConnectionLost
  BY <1>1, <1>10 DEF LoadSession, DialSucceeds, GetMe, DialFails, ConnectionLost
<1>11. CASE Disconnect \/ MarkRevoked \/ KeptExpires
  BY <1>1, <1>11 DEF Disconnect, MarkRevoked, KeptExpires
<1>12. CASE Heartbeat \/ BeatAges \/ ReportAges \/ RedisFails \/ RedisReturns
  BY <1>1, <1>12 DEF Heartbeat, BeatAges, ReportAges, RedisFails, RedisReturns
<1>13. CASE UNCHANGED vars
  BY <1>1, <1>13 DEF vars
<1> QED
  BY <1>2, <1>3, <1>4, <1>5, <1>6, <1>7, <1>8, <1>9, <1>10, <1>11, <1>12, <1>13 DEF Next

LEMMA NextTypeInv == TypeInv /\ [Next]_vars => TypeInv'
<1> SUFFICES ASSUME TypeInv, [Next]_vars PROVE TypeInv'
  OBVIOUS
<1>1. Flags'
  BY NextFlags DEF TypeInv
<1>2. Linked'
  BY NextLinked
<1>3. Ranges'
  <2>1. UNCHANGED vars => Ranges'
    BY DEF vars, deployed, scanner, logouts, published, TypeInv, Ranges
  <2> QED
    BY <2>1, SecretsRanges, WorkerRanges, LogoutRanges DEF TypeInv, Next
<1>4. Logged'
  BY NextLogged DEF TypeInv
<1> QED
  BY <1>1, <1>2, <1>3, <1>4 DEF TypeInv

(* Every variable stays in its range: a client is one of the session that  *)
(* its store has read, a worker that is down holds none, and a logout that *)
(* is in the queue is not recorded as lost.                                *)
THEOREM TypeCorrect == Spec => []TypeOK
<1>1. Spec => []TypeInv
  BY InitTypeInv, NextTypeInv, PTL DEF Spec
<1> QED
  BY <1>1, TypeInvOK, PTL

-----------------------------------------------------------------------------
(* Only a dial that has passed the flag connects.                          *)
LEMMA NextDown == ASSUME Down, revoked', [Next]_vars PROVE Down'
<1> USE DEF Down, deployed, scanner, logouts, published
<1>1. dial = "no" \/ dial = "locked"
  BY DEF Down
<1>2. "no" \in {"no", "locked"} /\ "locked" \in {"no", "locked"}
  OBVIOUS
<1>3. CASE UNCHANGED <<connected, dial>>
  BY <1>3, Zenon
<1>4. CASE Start \/ Connect
  <2>1. connected' = connected /\ dial' = "locked"
    BY <1>4 DEF Start, Connect
  <2> QED
    BY <1>2, <2>1, Zenon
<1>5. CASE CheckFlag \/ FlagUnreadable
  <2>1. connected' = connected
    BY <1>5 DEF CheckFlag, FlagUnreadable
  <2>2. dial' = "no"
    BY <1>5, Zenon DEF CheckFlag, FlagUnreadable
  <2> QED
    BY <1>2, <2>1, <2>2, Zenon
<1>6. ~(LoadSession \/ DialSucceeds \/ GetMe \/ DialFails)
  BY <1>1 DEF LoadSession, DialSucceeds, GetMe, DialFails
<1>7. CASE ConnectionLost \/ Disconnect
  BY <1>7, Zenon DEF ConnectionLost, Disconnect
<1>8. CASE Crash \/ Shutdown
  <2>1. connected' = FALSE /\ dial' = "no"
    BY <1>8, Zenon DEF Crash, Shutdown, Ends
  <2> QED
    BY <1>2, <2>1, Zenon
<1>9. CASE Provision \/ Upload \/ (\E s \in Sessions : Terminate(s)) \/ StartupReports
  BY <1>3, <1>9 DEF Provision, Upload, Terminate, StartupReports
<1>10. CASE ConfirmLogout \/ MarkRevoked \/ MarkFails \/ WipeFile \/ ReportRevoked \/ KeptExpires
  BY <1>3, <1>10 DEF ConfirmLogout, MarkRevoked, MarkFails, WipeFile, ReportRevoked, KeptExpires
<1>11. CASE Heartbeat \/ BeatAges \/ ReportAges \/ RedisFails \/ RedisReturns \/ RedisReturnsEmpty
  BY <1>3, <1>11 DEF Heartbeat, BeatAges, ReportAges, RedisFails, RedisReturns, RedisReturnsEmpty
<1>12. CASE UNCHANGED vars
  BY <1>3, <1>12 DEF vars
<1> QED
  BY <1>4, <1>5, <1>6, <1>7, <1>8, <1>9, <1>10, <1>11, <1>12 DEF Next

(* A scanner that is down while the flag is set and no dial has passed the *)
(* flag stays down until the flag is cleared.                              *)
THEOREM StaysDown == Spec => RevokedStaysDown
<1>1. [Next]_vars => [Down /\ revoked' => Down']_vars
  BY NextDown
<1> QED
  BY <1>1, PTL DEF Spec, RevokedStaysDown
=============================================================================
