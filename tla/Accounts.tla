------------------------------- MODULE Accounts -------------------------------
(***************************************************************************)
(* app/users.py and the commands of app/main.py that prepare a deployment: *)
(* the accounts, the verification of a password, the log of failed logins  *)
(* with its alert, the setup wizard and --adduser.                         *)
(*                                                                         *)
(*   SQLite   schema, users, failed (rows of login_log with success = 0)   *)
(*   memory   alerted (_alerted), attempt (a verification in progress)     *)
(*                                                                         *)
(* A password hash is the password it was made from and whether its        *)
(* parameters are the current ones.                                        *)
(***************************************************************************)
EXTENDS Integers, FiniteSets, FiniteSetsExt

CONSTANTS
    Names,         \* user names
    Admin,         \* "admin"
    Passwords,
    Ips,
    Attempts,      \* verifications that can be in progress at the same time
    Nil,           \* no name, no password
    Thresholds,    \* _ALERT_THRESHOLDS
    Window,        \* _ANOMALY_WINDOW
    Interval,      \* CLEANUP_INTERVAL
    MaxTime,       \* bound: the clock stops here
    MaxFailures,   \* bound: failed database calls
    MaxCommands    \* bound: commands an operator gives

ASSUME AdminAssumption == Admin \in Names
ASSUME AlertAssumption ==
    /\ Thresholds \subseteq Nat \ {0} /\ IsFiniteSet(Thresholds)
    /\ Window \in Nat /\ Interval \in Nat \ {0}
ASSUME BoundsAssumption ==
    MaxTime \in Nat /\ MaxFailures \in Nat /\ MaxCommands \in Nat

VARIABLES
    configured,    \* config.json and the data directory exist
    schema,        \* the tables of app.db exist
    up,            \* the server is running
    users, failed, alerted, attempt,
    now, swept,    \* the clock, and the last pass of the cleanup loop
    failures,
    cli,           \* the command an operator is running
    commands,      \* commands given so far
    chosen,        \* history: the passwords an operator has set for an account
    warnings       \* history: the warnings logged

accountVars == <<configured, schema, up, users, failed, alerted, attempt, now, swept,
                 failures, cli, commands, chosen, warnings>>

Hash == [password : Passwords, current : BOOLEAN]

NoAccount == [password |-> Nil, current |-> FALSE]

AttemptPC == {"none", "lookup", "verify", "rehash", "good", "bad", "error"}

Attempt == [ pc : AttemptPC, name : Names \cup {Nil}, password : Passwords \cup {Nil},
             stored : Hash \cup {NoAccount} ]

NoAttempt == [pc |-> "none", name |-> Nil, password |-> Nil, stored |-> NoAccount]

CliPC == {"idle", "setup_lookup", "setup_create", "reset", "create", "crashed"}

Warning == [ip : Ips, level : Thresholds, when : 0 .. MaxTime]

AccountsTypeOK ==
    /\ configured \in BOOLEAN /\ schema \in BOOLEAN /\ up \in BOOLEAN
    /\ users \in [Names -> Hash \cup {NoAccount}]
    /\ failed \in [Ips -> [0 .. MaxTime -> Nat]]
    /\ alerted \in SUBSET Warning
    /\ attempt \in [Attempts -> Attempt]
    /\ now \in 0 .. MaxTime /\ swept \in 0 .. MaxTime
    /\ failures \in 0 .. MaxFailures
    /\ cli \in [pc : CliPC, name : Names \cup {Nil}] /\ commands \in 0 .. MaxCommands
    /\ chosen \in [Names -> SUBSET Passwords]
    /\ warnings \in SUBSET Warning

\* A host nothing was installed on; one where the server has run and no account
\* was made; or one upgraded from a release with other argon2 parameters, where
\* the operator chose the password of admin.
AccountsInit ==
    /\ \E host \in {"bare", "started", "upgraded"}, old \in Passwords :
          LET installed(n) == host = "upgraded" /\ n = Admin
          IN  /\ configured = (host # "bare") /\ schema = (host # "bare")
              /\ users = [n \in Names |-> IF installed(n) THEN [password |-> old, current |-> FALSE]
                                          ELSE NoAccount]
              /\ chosen = [n \in Names |-> IF installed(n) THEN {old} ELSE {}]
    /\ up = FALSE
    /\ failed = [ip \in Ips |-> [t \in 0 .. MaxTime |-> 0]]
    /\ alerted = {} /\ warnings = {}
    /\ attempt = [r \in Attempts |-> NoAttempt]
    /\ now = 0 /\ swept = 0 /\ failures = 0
    /\ cli = [pc |-> "idle", name |-> Nil] /\ commands = 0

Charge(n) == failures + n <= MaxFailures /\ failures' = failures + n

Cost(ok) == IF ok THEN 0 ELSE 1

\* Mutant: the password is stored as it is.
SetPlainPassword(n, p) == users' = [users EXCEPT ![n] = p]

\* hash_password, with the parameters of this release.
SetPassword(n, p) == users' = [users EXCEPT ![n] = [password |-> p, current |-> TRUE]]

-----------------------------------------------------------------------------
(* verify_user.                                                            *)

Attempting(r, l) == attempt[r].pc = l

StartAttempt(r, n, p) ==
    attempt' = [attempt EXCEPT ![r] = [NoAttempt EXCEPT !.pc = "lookup", !.name = n,
                                                        !.password = p]]

\* get_user: the hash is read here and compared later.
Lookup(r, ok) ==
    /\ Attempting(r, "lookup")
    /\ Charge(Cost(ok))
    /\ LET row == users[attempt[r].name]
       IN  attempt' = [attempt EXCEPT
              ![r].pc = IF ~ok THEN "error" ELSE IF row = NoAccount THEN "bad" ELSE "verify",
              ![r].stored = IF ok THEN row ELSE @]
    /\ UNCHANGED users

\* Mutant: an old hash is upgraded before the password is compared with it.
VerifyUpgradingFirst(r) ==
    /\ Attempting(r, "verify")
    /\ attempt' = [attempt EXCEPT ![r].pc =
          IF ~attempt[r].stored.current THEN "rehash"
          ELSE IF attempt[r].stored.password = attempt[r].password THEN "good" ELSE "bad"]
    /\ UNCHANGED <<users, failures>>

Verify(r) ==
    /\ Attempting(r, "verify")
    /\ attempt' = [attempt EXCEPT ![r].pc =
          IF attempt[r].stored.password # attempt[r].password THEN "bad"
          ELSE IF attempt[r].stored.current THEN "good" ELSE "rehash"]
    /\ UNCHANGED <<users, failures>>

\* _upgrade_password writes whatever hash is there by now; an error is logged.
Rehash(r, ok) ==
    /\ Attempting(r, "rehash")
    /\ Charge(Cost(ok))
    /\ IF ok THEN SetPassword(attempt[r].name, attempt[r].password) ELSE UNCHANGED users
    /\ attempt' = [attempt EXCEPT ![r].pc = "good"]

VerifyUser(r) == Verify(r) \/ (\E ok \in BOOLEAN : Lookup(r, ok) \/ Rehash(r, ok))

-----------------------------------------------------------------------------
(* The log of failed logins and its alert.                                 *)

Recent(log, ip) == MapThenSumSet(LAMBDA t : log[ip][t], {t \in 0 .. MaxTime : t > now - Window})

AlertLevel(ip) == Max({w.level : w \in {a \in alerted : a.ip = ip}} \cup {0})

Crossed(count) == Max({t \in Thresholds : count >= t} \cup {0})

\* _check_login_anomaly, when its query succeeds.
CheckAnomaly(ip, count) ==
    LET crossed == Crossed(count)
        others  == {a \in alerted : a.ip # ip}
        warning == [ip |-> ip, level |-> crossed, when |-> now]
    IN  IF crossed = 0 THEN alerted' = others /\ UNCHANGED warnings
        ELSE IF crossed <= AlertLevel(ip) THEN UNCHANGED <<alerted, warnings>>
        ELSE alerted' = others \cup {warning} /\ warnings' = warnings \cup {warning}

\* log_login_attempt of a failed login; the insert and the count may each fail.
LogFailure(ip, inserted, counted) ==
    /\ Charge(Cost(inserted) + Cost(counted))
    /\ failed' = IF inserted THEN [failed EXCEPT ![ip][now] = @ + 1] ELSE failed
    /\ IF counted THEN CheckAnomaly(ip, Recent(failed', ip)) ELSE UNCHANGED <<alerted, warnings>>

\* Mutant: the cleanup loop drops no alert.
PruneNothing == UNCHANGED alerted

\* prune_login_alerts.
PruneAlerts == alerted' = {a \in alerted : a.when >= now - Window}

-----------------------------------------------------------------------------
(* The clock and the server.                                               *)

\* The cleanup loop is on time.
Tick ==
    /\ now < MaxTime /\ (up => now < swept + Interval)
    /\ now' = now + 1
    /\ UNCHANGED <<configured, schema, up, users, failed, alerted, attempt, swept, failures,
                   cli, commands, chosen, warnings>>

Cleanup ==
    /\ up /\ now = swept + Interval
    /\ swept' = now
    /\ PruneAlerts
    /\ UNCHANGED <<configured, schema, up, users, failed, attempt, now, failures, cli,
                   commands, chosen, warnings>>

\* startup_checks, then the lifespan, which makes the tables.
Start ==
    /\ configured /\ ~up
    /\ up' = TRUE /\ schema' = TRUE /\ swept' = now
    /\ UNCHANGED <<configured, users, failed, alerted, attempt, now, failures, cli,
                   commands, chosen, warnings>>

\* The process ends, and with it its memory.
Stop ==
    /\ up
    /\ up' = FALSE /\ alerted' = {} /\ attempt' = [r \in Attempts |-> NoAttempt]
    /\ UNCHANGED <<configured, schema, users, failed, now, swept, failures, cli,
                   commands, chosen, warnings>>

-----------------------------------------------------------------------------
(* The commands.  One operator, one command at a time.                     *)

Cli(l) == cli.pc = l

Given == commands < MaxCommands /\ commands' = commands + 1

CliGoto(l, n) == cli' = [pc |-> l, name |-> n]

\* create_user and the UPDATE of --adduser.
OperatorSets(n, p) == SetPassword(n, p) /\ chosen' = [chosen EXCEPT ![n] = @ \cup {p}]

\* run_setup_wizard writes the config and the directories.  What it calls next
\* by the name _schema is prune_login_alerts, with no alert to drop.
RunSetup ==
    /\ Cli("idle") /\ Given
    /\ configured' = TRUE
    /\ CliGoto("setup_lookup", Admin)
    /\ UNCHANGED <<schema, users, chosen>>

\* _gu("admin") raises where there is no table.
SetupLookup ==
    /\ Cli("setup_lookup")
    /\ CliGoto(IF ~schema THEN "crashed"
               ELSE IF users[Admin] = NoAccount THEN "setup_create" ELSE "idle", Admin)
    /\ UNCHANGED <<configured, schema, users, commands, chosen>>

\* run_adduser, where the data directory exists.
RunAddUser(n) ==
    /\ Cli("idle") /\ configured /\ Given
    /\ schema' = TRUE
    /\ CliGoto(IF users[n] = NoAccount THEN "create" ELSE "reset", n)
    /\ UNCHANGED <<configured, users, chosen>>

EnterPassword(p) ==
    /\ cli.pc \in {"setup_create", "create", "reset"}
    /\ OperatorSets(cli.name, p)
    /\ CliGoto("idle", Nil)
    /\ UNCHANGED <<configured, schema, commands>>

\* The prompt is declined, or the two passwords differ; or the crash is read.
GiveUp ==
    /\ cli.pc \in {"setup_create", "create", "reset", "crashed"}
    /\ CliGoto("idle", Nil)
    /\ UNCHANGED <<configured, schema, users, commands, chosen>>

Operate ==
    /\ \/ RunSetup \/ SetupLookup \/ GiveUp
       \/ \E n \in Names : RunAddUser(n)
       \/ \E p \in Passwords : EnterPassword(p)
    /\ UNCHANGED <<up, failed, alerted, attempt, now, swept, failures, warnings>>
=============================================================================
