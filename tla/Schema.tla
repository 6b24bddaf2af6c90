------------------------------- MODULE Schema -------------------------------
(***************************************************************************)
(* The SQLite schema and its migrations: applySchema runs its statements   *)
(* one by one, each in a transaction of its own, from the package's        *)
(* postinst, from the unit's ExecStartPre, again when the API boots, and   *)
(* from migrate.js run by hand.  Any of them may be cut short, two of them *)
(* may overlap, and databases of earlier versions are met.                 *)
(*                                                                         *)
(* Who starts the API: an upgrade stops the unit and its postinst starts   *)
(* it, enabled; systemd starts it at boot, if it is enabled, and after a   *)
(* failure, but not after a clean stop.  A postinst that is cut short      *)
(* leaves it stopped, until the machine boots or an administrator acts.    *)
(***************************************************************************)
EXTENDS Naturals, Sequences

CONSTANT CN                \* Common Names of credentials

Table == {"admin_users", "vpn_credentials"}
Added == <<"name", "has_password", "superseded_at">>    \* in order of versions
Column == {Added[i] : i \in DOMAIN Added}
Index == {"status_index", "name_index"}

VARIABLES tables, columns, indexes,    \* columns: the added ones that are there
          name,            \* of each credential: "none" for NULL
          api,             \* the unit
          enabled,         \* whether the machine starts it at boot
          package,         \* how far dpkg is with the package
          pc               \* the next statement of each process that migrates

vars == <<tables, columns, indexes, name, api, enabled, package, pc>>
schemaVars == <<tables, columns, indexes>>
unitVars == <<api, enabled, package>>

\* "service" is the unit's ExecStartPre and then the API.
Runner == {"service", "postinst", "hand"}

\* A slip: "tables, indexes, column migrations".
IndexesFirst == <<"admin_users", "vpn_credentials", "status_index", "name_index",
                  "name", "backfill", "has_password", "superseded_at">>

\* applySchema.
Statements == <<"admin_users", "vpn_credentials", "name", "backfill",
                "has_password", "superseded_at", "status_index", "name_index">>

End == Len(Statements) + 1

TypeOK == /\ tables \subseteq Table /\ columns \subseteq Column /\ indexes \subseteq Index
          /\ name \in [CN -> {"absent", "none", "label", "cn"}]
          /\ api \in {"stopped", "failed", "pre", "boot", "up"}
          /\ enabled \in BOOLEAN
          /\ package \in {"unpacked", "configuring", "configured",
                          "interrupted", "failed"}
          /\ pc \in [Runner -> 0 .. End]      \* 0: not running

\* The package is unpacked, on a new machine or on one with the database of any
\* earlier version, whose unit was stopped, or disabled with its removal.
Init == /\ \/ \E version \in 0 .. Len(Added) :
                /\ tables = Table
                /\ columns = {Added[i] : i \in 1 .. version}
                /\ indexes = IF version = 0 THEN {"status_index"} ELSE Index
                /\ name \in [CN -> {"absent", IF version = 0 THEN "none" ELSE "label"}]
                /\ enabled \in BOOLEAN
           \/ /\ tables = {} /\ columns = {} /\ indexes = {}
              /\ name = [cn \in CN |-> "absent"]
              /\ enabled = FALSE
        /\ api = "stopped" /\ package = "unpacked"
        /\ pc = [r \in Runner |-> 0]

(***************************************************************************)
(* The statements.                                                         *)
(***************************************************************************)
\* CREATE TABLE IF NOT EXISTS: a new vpn_credentials has a name column.
CreateTable(t) ==
  /\ tables' = tables \union {t}
  /\ columns' = IF t = "vpn_credentials" /\ t \notin tables THEN {"name"} ELSE columns
  /\ UNCHANGED <<indexes, name>>

\* A column that is there already is no error.
AddColumnIfMissing(c) == /\ columns' = columns \union {c}
                         /\ UNCHANGED <<tables, indexes, name>>

\* A slip: without the WHERE.
BackfillAll ==
  /\ name' = [cn \in CN |-> IF name[cn] = "absent" THEN "absent" ELSE "cn"]
  /\ UNCHANGED schemaVars

Backfill ==
  /\ name' = [cn \in CN |-> IF name[cn] = "none" THEN "cn" ELSE name[cn]]
  /\ UNCHANGED schemaVars

CreateIndex(i) == /\ indexes' = indexes \union {i}
                  /\ UNCHANGED <<tables, columns, name>>

\* A statement names a table and columns that are there, or it throws.
Prepares(st) == /\ st \notin Table => "vpn_credentials" \in tables
                /\ st \in {"backfill", "name_index"} => "name" \in columns

Execute(st) == \/ st \in Table /\ CreateTable(st)
               \/ st \in Column /\ AddColumnIfMissing(st)
               \/ st = "backfill" /\ Backfill
               \/ st \in Index /\ CreateIndex(st)

(***************************************************************************)
(* The processes.                                                          *)
(***************************************************************************)
Running(r) == pc[r] \in DOMAIN Statements

\* A slip: the backfill is left out with the ALTER, if the column is there.
NextUnlessThere(r) ==
  pc[r] + (IF Statements[pc[r]] = "name" /\ "name" \in columns THEN 2 ELSE 1)

NextStatement(r) == pc[r] + 1

\* The unit and process r go on, the schema stays.
Goes(r, at) == /\ pc' = [pc EXCEPT ![r] = at]
               /\ UNCHANGED <<schemaVars, name>>

\* systemd, RestartSec after a failure.
Start == /\ api = "failed" /\ api' = "pre" /\ Goes("service", 1)
         /\ UNCHANGED <<enabled, package>>

\* An administrator: systemctl start.
StartByHand == /\ api = "stopped" /\ api' = "pre" /\ Goes("service", 1)
               /\ UNCHANGED <<enabled, package>>

\* ExecStartPre has succeeded: the API boots, and migrates again.
ExecStart == /\ api = "pre" /\ pc["service"] = End
             /\ api' = "boot" /\ Goes("service", 1)
             /\ UNCHANGED <<enabled, package>>

Listen == /\ api = "boot" /\ pc["service"] = End
          /\ api' = "up" /\ Goes("service", 0)
          /\ UNCHANGED <<enabled, package>>

\* prerm, of an upgrade or of dpkg-reconfigure, and the unpacked files.
Upgrade == /\ package \notin {"unpacked", "configuring"}
           /\ package' = "unpacked"
           /\ api' = "stopped" /\ Goes("service", 0)
           /\ UNCHANGED enabled

Configure == /\ package' = "configuring" /\ Goes("postinst", 1)
             /\ UNCHANGED <<api, enabled>>

\* dpkg goes on to postinst; after a failure it takes dpkg --configure.
Postinst == package = "unpacked" /\ Configure
ConfigureAgain == package \in {"interrupted", "failed"} /\ Configure

\* The end of postinst: the unit is enabled and restarted.
RestartUnit == /\ pc["postinst"] = End
               /\ package' = "configured" /\ enabled' = TRUE
               /\ api' = "pre"
               /\ pc' = [pc EXCEPT !["service"] = 1, !["postinst"] = 0]
               /\ UNCHANGED <<schemaVars, name>>

\* Everything ends, and the unit is started if it is enabled.
Reboot == /\ api' = IF enabled THEN "pre" ELSE "stopped"
          /\ pc' = [r \in Runner |-> IF r = "service" /\ enabled THEN 1 ELSE 0]
          /\ package' = IF package \in {"unpacked", "configuring"} THEN "interrupted"
                        ELSE package
          /\ UNCHANGED <<schemaVars, name, enabled>>

MigrateByHand == /\ pc["hand"] = 0 /\ Goes("hand", 1)
                 /\ UNCHANGED unitVars

\* The process of r ends before it is done: systemd sees the unit fail, and
\* postinst, by set -e, leaves the package half configured.
Stop(r, how) == /\ Goes(r, 0)
                /\ CASE r = "service" -> api' = "failed" /\ UNCHANGED package
                     [] r = "postinst" -> package' = how /\ UNCHANGED api
                     [] r = "hand" -> UNCHANGED <<api, package>>
                /\ UNCHANGED enabled

\* A statement that cannot be prepared throws.
Statement(r) ==
  /\ Running(r)
  /\ IF Prepares(Statements[pc[r]])
     THEN /\ Execute(Statements[pc[r]])
          /\ pc' = [pc EXCEPT ![r] = NextStatement(r)]
          /\ UNCHANGED unitVars
     ELSE Stop(r, "failed")

\* migrate.js run by hand has nothing left to do.
HandDone == pc["hand"] = End /\ Goes("hand", 0) /\ UNCHANGED unitVars

\* A process is killed, or finds the disk full or the file locked; dpkg may be
\* killed before postinst as well.
Cut(r) == /\ CASE r = "service" -> api \in {"pre", "boot", "up"}
               [] r = "postinst" -> package \in {"unpacked", "configuring"}
               [] r = "hand" -> pc["hand"] # 0
          /\ Stop(r, "interrupted")

\* The API stores a credential.
Store(cn) ==
  /\ api = "up" /\ Column \subseteq columns
  /\ name[cn] = "absent"
  /\ name' = [name EXCEPT ![cn] = "label"]
  /\ UNCHANGED <<schemaVars, unitVars, pc>>

\* ocm-admin: openDb creates admin_users, and import-clients finds the table,
\* but throws if it is not up to date.
OcmAdmin ==
  /\ tables' = tables \union {"admin_users"}
  /\ \/ UNCHANGED name
     \/ \E cn \in CN : /\ "vpn_credentials" \in tables
                       /\ {"name", "has_password"} \subseteq columns
                       /\ name[cn] = "absent"
                       /\ name' = [name EXCEPT ![cn] = "cn"]
  /\ UNCHANGED <<columns, indexes, unitVars, pc>>

Next == \/ \E r \in Runner : Statement(r) \/ Cut(r)
        \/ Start \/ StartByHand \/ ExecStart \/ Listen
        \/ Upgrade \/ Postinst \/ ConfigureAgain \/ RestartUnit
        \/ Reboot
        \/ MigrateByHand \/ HandDone
        \/ \E cn \in CN : Store(cn)
        \/ OcmAdmin

Spec == Init /\ [][Next]_vars

\* systemd restarts what failed, dpkg and postinst go on, and a statement waits
\* its turn for the file.  No administrator has to come.
LiveSpec == /\ Spec
            /\ WF_vars(Start) /\ WF_vars(ExecStart) /\ WF_vars(Listen)
            /\ WF_vars(Statement("service"))
            /\ WF_vars(Postinst) /\ WF_vars(Statement("postinst"))
            /\ WF_vars(RestartUnit)

(***************************************************************************)
(* Correctness.                                                            *)
(***************************************************************************)
\* What statement st leaves behind, whoever runs whatever after it.
InForce(st) == st \in tables \union columns \union indexes

\* The API serves on a complete schema, in which every credential has a name:
\* names are looked up by the column, so a NULL one would be free to reuse.
ServesCurrentSchema ==
  api = "up" => /\ Table \subseteq tables /\ Column \subseteq columns
                /\ Index \subseteq indexes
                /\ \A cn \in CN : name[cn] # "none"

\* The inductive invariant, by parts.  Columns, indexes and credentials are of
\* a table that is there.
LayerInv ==
  /\ "vpn_credentials" \notin tables => /\ columns = {} /\ indexes = {}
                                        /\ \A cn \in CN : name[cn] = "absent"
  /\ "name_index" \in indexes => "name" \in columns

\* Whoever migrates finds what it has done in force, whoever else migrates.
ProgressInv ==
  \A r \in Runner : \A i \in DOMAIN Statements :
    i < pc[r] /\ Statements[i] # "backfill" => InForce(Statements[i])

\* The service does not start the API before its backfill, and nothing that
\* runs beside it stores a credential without a name.
NamedInv == (api \in {"pre", "boot"} /\ pc["service"] > 4) \/ api \in {"boot", "up"}
              => \A cn \in CN : name[cn] # "none"

PhaseInv == /\ api \in {"stopped", "failed", "up"} <=> pc["service"] = 0
            /\ package = "configuring" <=> pc["postinst"] # 0

ReadyInv == api \in {"boot", "up"} =>
              Table \subseteq tables /\ Column \subseteq columns /\ Index \subseteq indexes

SchemaInv == TypeOK /\ LayerInv /\ ProgressInv /\ NamedInv /\ PhaseInv /\ ReadyInv

\* No migration and no import loses a credential or the name it was given.
NamesKept ==
  [][\A cn \in CN : /\ name[cn] # "absent" => name'[cn] # "absent"
                    /\ name[cn] = "label" => name'[cn] = "label"]_vars

\* When nothing interrupts it any more, every migration succeeds, on any
\* database it may meet, and the API serves.  The exception is the machine
\* whose last upgrade was cut short: its unit was stopped and stays stopped.
Interrupted == Upgrade \/ Reboot \/ \E r \in Runner : Cut(r)
EventuallyServes ==
  <>[][~Interrupted]_vars
    => <>[](api = "up" \/ (api = "stopped" /\ package = "interrupted"))
=============================================================================
