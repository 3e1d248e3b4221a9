---- MODULE GatewayWatchdog ----
(* The watchdog of the messaging gateway (cc_connect_watchdog.py): a check
   every minute that restarts the daemon when it or its socket is down,
   not more often than the cooldown, alerts once about what a restart does
   not repair, and announces a recovery through the gateway itself.  Its
   memory is one file, rewritten atomically several times within a check;
   the check may die anywhere, and two checks exclude each other by a lock
   that dies with them.  The clock may be set back.  Time counts in checks,
   so none passes within the command that restarts the daemon. *)
EXTENDS Naturals

CONSTANTS
    WdCooldown,     \* restart_cooldown_seconds, in ticks
    WdMaxFaults     \* bound: deaths of a check, failed commands, clock set back

ASSUME WdAssumption == WdCooldown \in Nat

VARIABLES
    wdDaemon,       \* daemon and socket: "up" or "down"
    wdCron,         \* the expected cron jobs are listed
    wdAge,          \* time since last_restart_at, as the clock shows it
    wdReal,         \* history: time since the daemon was last restarted
    wdFile,         \* status.json
    wdAt,           \* where the check is
    wdMem,          \* its copy of the file
    wdReport,       \* the health it saw
    wdOutage,       \* history: an outage a check has seen is not announced over
    wdSetBack,      \* history: the clock was set back
    wdFaults

wdVars == <<wdDaemon, wdCron, wdAge, wdReal, wdFile, wdAt, wdMem, wdReport, wdOutage, wdSetBack, wdFaults>>
wdWorld == <<wdDaemon, wdCron, wdAge, wdReal, wdSetBack, wdFaults>>

--------------------
WdDefault == [state |-> "UNKNOWN", restart |-> FALSE, pending |-> FALSE, alert |-> FALSE]

WdHealth == IF wdDaemon = "down" THEN "restartable" ELSE IF wdCron THEN "healthy" ELSE "other"

(* 0 <= elapsed < cooldown: after the clock was set back a restart is not
   held up. *)
WdInCooldown(mem) == mem.restart /\ wdAge < WdCooldown

(* A command of the gateway works only while the daemon runs. *)
WdSends == wdDaemon = "up"

WdFault == wdFaults < WdMaxFaults /\ wdFaults' = wdFaults + 1

WdPersist(mem) == wdMem' = mem /\ wdFile' = mem

WdGo(at) == wdAt' = at

(* Mutant: the recovery is announced but was never put into the file. *)
WdHealthyUnrecorded(mem, recovered) ==
    [mem EXCEPT !.state = "HEALTHY", !.alert = FALSE]

(* _persist_healthy *)
WdHealthy(mem, recovered) ==
    [mem EXCEPT !.state = "HEALTHY", !.alert = FALSE, !.pending = @ \/ recovered]

--------------------
(* run_once, from write to write. *)

WdLoad ==
    /\ wdAt = "idle"
    /\ wdMem' = wdFile
    /\ wdReport' = WdHealth
    /\ WdGo("judge")
    /\ UNCHANGED <<wdFile, wdOutage, wdWorld>>

WdSeesHealthy ==
    /\ wdAt = "judge" /\ wdReport = "healthy"
    /\ WdPersist(WdHealthy(wdMem, wdMem.state = "UNHEALTHY"))
    /\ WdGo("flush")
    /\ UNCHANGED <<wdReport, wdOutage, wdWorld>>

(* _flush_recovery_notification *)
WdFlush ==
    /\ wdAt = "flush"
    /\ IF wdMem.pending /\ WdSends
       THEN /\ WdPersist([wdMem EXCEPT !.pending = FALSE])
            /\ wdOutage' = FALSE
       ELSE UNCHANGED <<wdFile, wdMem, wdOutage>>
    /\ WdGo("idle")
    /\ UNCHANGED <<wdReport, wdWorld>>

(* Daemon and socket answer, a cron job is missing: one alert. *)
WdSeesOther ==
    /\ wdAt = "judge" /\ wdReport = "other"
    /\ WdPersist([wdMem EXCEPT !.state = "UNHEALTHY"])
    /\ WdGo("alert")
    /\ wdOutage' = TRUE
    /\ UNCHANGED <<wdReport, wdWorld>>

WdAlert ==
    /\ wdAt = "alert"
    /\ IF ~wdMem.alert /\ WdSends
       THEN WdPersist([wdMem EXCEPT !.alert = TRUE])
       ELSE UNCHANGED <<wdFile, wdMem>>
    /\ WdGo("idle")
    /\ UNCHANGED <<wdReport, wdOutage, wdWorld>>

WdHeldBack ==
    /\ wdAt = "judge" /\ wdReport = "restartable"
    /\ WdInCooldown(wdMem)
    /\ WdPersist([wdMem EXCEPT !.state = "UNHEALTHY"])
    /\ wdOutage' = TRUE
    /\ WdGo("idle")
    /\ UNCHANGED <<wdReport, wdWorld>>

(* The restart is in the file before it is asked for. *)
WdIntends ==
    /\ wdAt = "judge" /\ wdReport = "restartable"
    /\ ~WdInCooldown(wdMem)
    /\ WdPersist([wdMem EXCEPT !.state = "UNHEALTHY", !.restart = TRUE])
    /\ wdAge' = 0
    /\ wdOutage' = TRUE
    /\ WdGo("restart")
    /\ UNCHANGED <<wdReport, wdDaemon, wdCron, wdReal, wdSetBack, wdFaults>>

(* The daemon comes up or not; a command that fails ends the check. *)
WdRestart ==
    \E works \in BOOLEAN :
        /\ wdAt = "restart"
        /\ wdReal' = 0
        /\ wdDaemon' = IF works THEN "up" ELSE wdDaemon
        /\ IF works THEN UNCHANGED wdFaults ELSE WdFault
        /\ WdGo(IF works THEN "watch" ELSE "idle")
        /\ UNCHANGED <<wdCron, wdAge, wdSetBack, wdFile, wdMem, wdReport, wdOutage>>

(* The checks after a restart; giving up leaves the file as it is. *)
WdWatch ==
    /\ wdAt = "watch"
    /\ wdReport' = WdHealth
    /\ CASE WdHealth = "healthy" -> /\ WdPersist(WdHealthy(wdMem, TRUE))
                                    /\ WdGo("flush")
         [] WdHealth = "other"   -> /\ WdPersist(wdMem)
                                    /\ WdGo("alert")
         [] OTHER                -> WdPersist(wdMem) /\ WdGo("idle")
    /\ UNCHANGED <<wdOutage, wdWorld>>

--------------------
(* The world. *)

WdDies ==
    /\ wdAt # "idle"
    /\ WdFault
    /\ WdGo("idle")
    /\ wdMem' = WdDefault
    /\ UNCHANGED <<wdDaemon, wdCron, wdAge, wdReal, wdSetBack, wdFile, wdReport, wdOutage>>

WdTick ==
    /\ wdAt # "restart"
    /\ wdAge < WdCooldown \/ wdReal < WdCooldown
    /\ wdAge' = IF wdAge < WdCooldown THEN wdAge + 1 ELSE wdAge
    /\ wdReal' = IF wdReal < WdCooldown THEN wdReal + 1 ELSE wdReal
    /\ UNCHANGED <<wdDaemon, wdCron, wdSetBack, wdFaults, wdFile, wdAt, wdMem, wdReport,
                   wdOutage>>

WdClockSetBack ==
    /\ WdFault
    /\ wdAge' = WdCooldown
    /\ wdSetBack' = TRUE
    /\ UNCHANGED <<wdDaemon, wdCron, wdReal, wdFile, wdAt, wdMem, wdReport, wdOutage>>

WdBreaks ==
    /\ WdFault
    /\ \/ wdDaemon = "up" /\ wdDaemon' = "down" /\ UNCHANGED wdCron
       \/ wdCron /\ wdCron' = FALSE /\ UNCHANGED wdDaemon
    /\ UNCHANGED <<wdAge, wdReal, wdSetBack, wdFile, wdAt, wdMem, wdReport, wdOutage>>

WdOperatorStartsDaemon ==
    /\ wdDaemon = "down" /\ wdDaemon' = "up"
    /\ UNCHANGED <<wdCron, wdAge, wdReal, wdSetBack, wdFaults, wdFile, wdAt, wdMem, wdReport,
                   wdOutage>>

WdOperatorRestoresCron ==
    /\ ~wdCron /\ wdCron' = TRUE
    /\ UNCHANGED <<wdDaemon, wdAge, wdReal, wdSetBack, wdFaults, wdFile, wdAt, wdMem, wdReport,
                   wdOutage>>

--------------------
WdInit ==
    /\ wdDaemon = "up"
    /\ wdCron = TRUE
    /\ wdAge = WdCooldown
    /\ wdReal = WdCooldown
    /\ wdFile = WdDefault
    /\ wdAt = "idle"
    /\ wdMem = WdDefault
    /\ wdReport = "healthy"
    /\ wdOutage = FALSE
    /\ wdSetBack = FALSE
    /\ wdFaults = 0

WdCheck ==
    \/ WdLoad \/ WdSeesHealthy \/ WdFlush \/ WdSeesOther \/ WdAlert \/ WdHeldBack
    \/ WdIntends \/ WdRestart \/ WdWatch

WdNext ==
    \/ WdCheck \/ WdDies \/ WdTick \/ WdClockSetBack \/ WdBreaks
    \/ WdOperatorStartsDaemon \/ WdOperatorRestoresCron

(* launchd starts a check every minute, time passes, and what a restart
   does not repair is repaired by the operator. *)
WdSpec == WdInit /\ [][WdNext]_wdVars
          /\ WF_wdVars(WdCheck) /\ WF_wdVars(WdTick)
          /\ WF_wdVars(WdOperatorRestoresCron)

WdTypeOK ==
    /\ wdFile.state \in {"UNKNOWN", "HEALTHY", "UNHEALTHY"}
    /\ wdAt \in {"idle", "judge", "flush", "alert", "restart", "watch"}
    /\ wdAge \in 0..WdCooldown /\ wdReal \in 0..WdCooldown

(* Two restarts of the daemon are at least the cooldown apart, also when
   checks die between them, unless the clock was set back. *)
WdRestartsSpaced == wdAt = "restart" /\ ~wdSetBack => wdReal >= WdCooldown

(* After an outage that a check has seen, a recovery is announced: the
   announcement is in the file before it is sent, so neither the death of a
   check nor a gateway that is down again makes it get lost. *)
WdRecoveryAnnounced == wdOutage ~> ~wdOutage
====
