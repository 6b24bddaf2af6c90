---------------------------- MODULE SchemaProofs ----------------------------
(***************************************************************************)
(* Proofs about Schema: the migration invariant is inductive, so the API   *)
(* serves on a complete schema, and no step loses a name.                  *)
(***************************************************************************)
EXTENDS Schema, TLAPS

\* What is in force once statements 1 to p - 1 have been run.
Passed(p) == /\ p > 1 => "admin_users" \in tables
             /\ p > 2 => "vpn_credentials" \in tables
             /\ p > 3 => "name" \in columns
             /\ p > 5 => "has_password" \in columns
             /\ p > 6 => "superseded_at" \in columns
             /\ p > 7 => "status_index" \in indexes
             /\ p > 8 => "name_index" \in indexes

\* The columns added, as a set.
LEMMA Columns == Column = {"name", "has_password", "superseded_at"}
  <1>1. DOMAIN Added = 1 .. 3
    BY DEF Added
  <1>2. Added[1] = "name" /\ Added[2] = "has_password" /\ Added[3] = "superseded_at"
    BY DEF Added
  <1> QED
    BY <1>1, <1>2 DEF Column

\* The statements of applySchema, one by one.
LEMMA EndIs == End = 9
  BY DEF Statements, End

LEMMA DomainIs == DOMAIN Statements = 1 .. 8
  BY DEF Statements

LEMMA StatementsAre ==
  /\ Statements[1] = "admin_users" /\ Statements[2] = "vpn_credentials"
  /\ Statements[3] = "name" /\ Statements[4] = "backfill"
  /\ Statements[5] = "has_password" /\ Statements[6] = "superseded_at"
  /\ Statements[7] = "status_index" /\ Statements[8] = "name_index"
  BY DEF Statements

\* "In force" statement by statement: tables, columns and indexes have names
\* of their own.
LEMMA PassedIsInForce ==
  ASSUME TypeOK, NEW p \in 0 .. End
  PROVE  (\A i \in DOMAIN Statements :
            i < p /\ Statements[i] # "backfill" => InForce(Statements[i]))
         <=> Passed(p)
  <1> DEFINE At(i) == i < p /\ Statements[i] # "backfill" => InForce(Statements[i])
  <1>1. (\A i \in DOMAIN Statements : At(i))
        <=> At(1) /\ At(2) /\ At(3) /\ At(4) /\ At(5) /\ At(6) /\ At(7) /\ At(8)
    <2> HIDE DEF At
    <2> QED  BY DomainIs
  <1>2. /\ InForce("admin_users") <=> "admin_users" \in tables
        /\ InForce("vpn_credentials") <=> "vpn_credentials" \in tables
        /\ InForce("name") <=> "name" \in columns
        /\ InForce("has_password") <=> "has_password" \in columns
        /\ InForce("superseded_at") <=> "superseded_at" \in columns
        /\ InForce("status_index") <=> "status_index" \in indexes
        /\ InForce("name_index") <=> "name_index" \in indexes
    BY Columns DEF TypeOK, Table, Index, InForce
  <1>3. p \in Nat  BY EndIs
  <1> HIDE DEF InForce
  <1> QED  BY <1>1, <1>2, <1>3, StatementsAre DEF Passed

\* Nothing is ever dropped from the schema.
Grows == /\ tables \subseteq tables' /\ columns \subseteq columns'
         /\ indexes \subseteq indexes'

LEMMA PassedStays ==
  ASSUME Grows, NEW p, Passed(p)
  PROVE  Passed(p)'
  BY DEF Grows, Passed

\* The credentials without a name are given one, the others keep theirs.
Named == [cn \in CN |-> IF name[cn] = "none" THEN "cn" ELSE name[cn]]

\* What one statement does, met after those before it.
LEMMA ExecuteDoes ==
  ASSUME TypeOK, LayerInv, NEW p \in 1 .. 8, Passed(p),
         Prepares(Statements[p]), Execute(Statements[p])
  PROVE  /\ Grows
         /\ Passed(p + 1)'
         /\ tables' \subseteq Table /\ columns' \subseteq Column /\ indexes' \subseteq Index
         /\ name' = Named \/ name' = name
         /\ p = 4 => name' = Named
         /\ "vpn_credentials" \notin tables' => columns' = {} /\ indexes' = {} /\ name' = name
         /\ "name_index" \in indexes' => "name" \in columns'
  <1>0. /\ tables \subseteq Table /\ columns \subseteq Column /\ indexes \subseteq Index
        /\ "vpn_credentials" \notin tables => columns = {} /\ indexes = {}
        /\ "name_index" \in indexes => "name" \in columns
    BY DEF TypeOK, LayerInv
  <1>1. CASE p = 1
    <2>1. CreateTable("admin_users")
      BY <1>1, StatementsAre, Columns DEF Execute, Table, Index
    <2> QED  BY <1>0, <1>1, <2>1, Columns DEF CreateTable, Grows, Passed, Table, Index
  <1>2. CASE p = 2
    <2>1. CreateTable("vpn_credentials")
      BY <1>2, StatementsAre, Columns DEF Execute, Table, Index
    <2> QED  BY <1>0, <1>2, <2>1, Columns DEF CreateTable, Grows, Passed, Table, Index
  <1>3. CASE p = 3
    <2>1. AddColumnIfMissing("name")
      BY <1>3, StatementsAre, Columns DEF Execute, Table, Index
    <2>2. "vpn_credentials" \in tables
      BY <1>3 DEF Passed
    <2> QED  BY <1>0, <1>3, <2>1, <2>2, Columns DEF AddColumnIfMissing, Grows, Passed, Table, Index
  <1>4. CASE p = 4
    <2>1. Backfill
      BY <1>4, StatementsAre, Columns DEF Execute, Table, Index
    <2>2. "vpn_credentials" \in tables /\ "name" \in columns
      BY <1>4 DEF Passed
    <2> QED  BY <1>0, <1>4, <2>1, <2>2 DEF Backfill, schemaVars, Grows, Passed, Named
  <1>5. CASE p = 5
    <2>1. AddColumnIfMissing("has_password")
      BY <1>5, StatementsAre, Columns DEF Execute, Table, Index
    <2>2. "vpn_credentials" \in tables
      BY <1>5 DEF Passed
    <2> QED  BY <1>0, <1>5, <2>1, <2>2, Columns DEF AddColumnIfMissing, Grows, Passed, Table, Index
  <1>6. CASE p = 6
    <2>1. AddColumnIfMissing("superseded_at")
      BY <1>6, StatementsAre, Columns DEF Execute, Table, Index
    <2>2. "vpn_credentials" \in tables
      BY <1>6 DEF Passed
    <2> QED  BY <1>0, <1>6, <2>1, <2>2, Columns DEF AddColumnIfMissing, Grows, Passed, Table, Index
  <1>7. CASE p = 7
    <2>1. CreateIndex("status_index")
      BY <1>7, StatementsAre, Columns DEF Execute, Table, Index
    <2>2. "vpn_credentials" \in tables
      BY <1>7 DEF Passed
    <2> QED  BY <1>0, <1>7, <2>1, <2>2, Columns DEF CreateIndex, Grows, Passed, Table, Index
  <1>8. CASE p = 8
    <2>1. CreateIndex("name_index")
      BY <1>8, StatementsAre, Columns DEF Execute, Table, Index
    <2>2. "vpn_credentials" \in tables /\ "name" \in columns
      BY <1>8 DEF Passed
    <2> QED  BY <1>0, <1>8, <2>1, <2>2, Columns DEF CreateIndex, Grows, Passed, Table, Index
  <1> QED  BY <1>1, <1>2, <1>3, <1>4, <1>5, <1>6, <1>7, <1>8

(***************************************************************************)
(* The invariant.                                                          *)
(***************************************************************************)
AllPassed == \A r \in Runner : Passed(pc[r])

\* SchemaInv, with its progress spelled out.
Inv == TypeOK /\ LayerInv /\ AllPassed /\ NamedInv /\ PhaseInv /\ ReadyInv

LEMMA InvIsSchemaInv == Inv => SchemaInv
  <1> SUFFICES ASSUME Inv, NEW r \in Runner
               PROVE  \A i \in DOMAIN Statements :
                        i < pc[r] /\ Statements[i] # "backfill" => InForce(Statements[i])
    BY DEF Inv, SchemaInv, ProgressInv
  <1>1. TypeOK /\ Passed(pc[r])
    BY DEF Inv, AllPassed
  <1>2. pc[r] \in 0 .. End
    BY <1>1 DEF TypeOK
  <1>3. PICK p \in 0 .. End : p = pc[r]
    BY <1>2
  <1> QED
    BY <1>1, <1>3, PassedIsInForce

\* Any earlier version of the database, or none, satisfies it.
LEMMA InitInv == Init => Inv
  <1> SUFFICES ASSUME Init PROVE Inv
    OBVIOUS
  <1>1. Len(Added) = 3
    BY DEF Added
  <1>2. Added[1] = "name" /\ Added[2] = "has_password" /\ Added[3] = "superseded_at"
    BY DEF Added
  <1>3. \A r \in Runner : pc[r] = 0
    BY DEF Init
  <1>4. /\ tables \subseteq Table /\ columns \subseteq Column /\ indexes \subseteq Index
        /\ name \in [CN -> {"absent", "none", "label", "cn"}] /\ enabled \in BOOLEAN
        /\ LayerInv
    <2>1. ASSUME NEW version \in 0 .. 3, tables = Table,
                 columns = {Added[i] : i \in 1 .. version},
                 indexes = (IF version = 0 THEN {"status_index"} ELSE Index)
          PROVE  columns \subseteq Column /\ indexes \subseteq Index /\ LayerInv
      <3>1. columns \subseteq Column
        BY <1>2, <2>1, Columns
      <3>2. version > 0 => "name" \in columns
        BY <1>2, <2>1
      <3> QED  BY <2>1, <3>1, <3>2 DEF LayerInv, Table, Index
    <2>2. CASE tables = {} /\ columns = {} /\ indexes = {} /\ enabled = FALSE
               /\ name = [cn \in CN |-> "absent"]
      BY <2>2 DEF LayerInv
    <2>3. CASE \E version \in 0 .. 3 :
                 /\ tables = Table /\ columns = {Added[i] : i \in 1 .. version}
                 /\ indexes = (IF version = 0 THEN {"status_index"} ELSE Index)
                 /\ name \in [CN -> {"absent", IF version = 0 THEN "none" ELSE "label"}]
                 /\ enabled \in BOOLEAN
      BY <2>1, <2>3
    <2> QED  BY <1>1, <2>2, <2>3 DEF Init
  <1>5. TypeOK
    BY <1>3, <1>4, EndIs DEF Init, TypeOK
  <1>6. AllPassed
    BY <1>3 DEF AllPassed, Passed
  <1>7. NamedInv /\ PhaseInv /\ ReadyInv
    BY <1>3 DEF Init, NamedInv, PhaseInv, ReadyInv, Runner
  <1> QED  BY <1>4, <1>5, <1>6, <1>7 DEF Inv

\* A statement that can be prepared.
LEMMA StatementInv ==
  ASSUME Inv, NEW r \in Runner, Running(r), Prepares(Statements[pc[r]]),
         Execute(Statements[pc[r]]), pc' = [pc EXCEPT ![r] = NextStatement(r)],
         UNCHANGED unitVars
  PROVE  Inv'
  <1>1. TypeOK /\ LayerInv /\ AllPassed /\ NamedInv /\ PhaseInv /\ ReadyInv
    BY DEF Inv
  <1>2. PICK p \in 1 .. 8 : p = pc[r]
    BY DomainIs DEF Running
  <1>3. /\ Grows /\ Passed(p + 1)'
        /\ tables' \subseteq Table /\ columns' \subseteq Column /\ indexes' \subseteq Index
        /\ name' = Named \/ name' = name
        /\ p = 4 => name' = Named
        /\ "vpn_credentials" \notin tables' => columns' = {} /\ indexes' = {} /\ name' = name
        /\ "name_index" \in indexes' => "name" \in columns'
    BY <1>1, <1>2, ExecuteDoes DEF AllPassed
  <1>4. /\ pc' \in [Runner -> 0 .. 9] /\ pc'[r] = p + 1
        /\ \A q \in Runner \ {r} : pc'[q] = pc[q]
    BY <1>1, <1>2, EndIs DEF TypeOK, NextStatement
  <1>5. /\ name' \in [CN -> {"absent", "none", "label", "cn"}]
        /\ (\A cn \in CN : name[cn] # "none") => \A cn \in CN : name'[cn] # "none"
        /\ name' = Named => \A cn \in CN : name'[cn] # "none"
    BY <1>1, <1>3 DEF TypeOK, Named
  <1>6. TypeOK'
    BY <1>1, <1>3, <1>4, <1>5, EndIs DEF TypeOK, unitVars
  <1>7. LayerInv'
    BY <1>1, <1>3 DEF LayerInv, Grows
  <1>8. AllPassed'
    <2> SUFFICES ASSUME NEW q \in Runner PROVE Passed(pc[q])'
      BY DEF AllPassed
    <2>1. CASE q = r
      BY <1>3, <1>4, <2>1 DEF Passed
    <2>2. CASE q # r
      BY <1>1, <1>3, <1>4, <2>2 DEF AllPassed, Passed, Grows
    <2> QED  BY <2>1, <2>2
  <1>9. NamedInv'
    <2>1. CASE r = "service" /\ p = 4
      BY <1>3, <1>5, <2>1 DEF NamedInv, unitVars
    <2>2. CASE ~(r = "service" /\ p = 4)
      <3>1. pc'["service"] > 4 => pc["service"] > 4
        BY <1>2, <1>4, <2>2 DEF Runner
      <3> QED  BY <1>1, <1>5, <3>1 DEF NamedInv, unitVars
    <2> QED  BY <2>1, <2>2
  <1>10. PhaseInv'
    BY <1>1, <1>2, <1>4 DEF PhaseInv, Runner, unitVars
  <1>11. ReadyInv'
    BY <1>1, <1>3 DEF ReadyInv, Grows, unitVars
  <1> QED  BY <1>6, <1>7, <1>8, <1>9, <1>10, <1>11 DEF Inv

\* The steps that touch no table: a process starts from the first statement,
\* goes on, or is over.
LEMMA StartsAgain ==
  ASSUME Inv, UNCHANGED <<schemaVars, name>>,
         pc' \in [Runner -> 0 .. 9], \A r \in Runner : pc'[r] \in {0, 1, pc[r]},
         api' \in {"stopped", "failed", "pre", "boot", "up"}, enabled' \in BOOLEAN,
         package' \in {"unpacked", "configuring", "configured", "interrupted", "failed"},
         PhaseInv', ReadyInv',
         api' \in {"boot", "up"} => \A cn \in CN : name[cn] # "none",
         api' = "pre" => pc'["service"] = 1 \/ (api = "pre" /\ UNCHANGED pc["service"])
  PROVE  Inv'
  <1> USE DEF Inv, schemaVars
  <1>1. TypeOK'
    BY EndIs DEF TypeOK
  <1>2. LayerInv'
    BY DEF LayerInv
  <1>3. AllPassed'
    BY DEF AllPassed, Passed
  <1>4. NamedInv'
    BY DEF NamedInv
  <1> QED  BY <1>1, <1>2, <1>3, <1>4

\* The end of a process.
LEMMA StopInv ==
  ASSUME Inv, NEW r \in Runner, NEW how \in {"interrupted", "failed"}, Stop(r, how),
         r = "service" => api \in {"pre", "boot", "up"},
         r = "postinst" => package \in {"unpacked", "configuring"}
  PROVE  Inv'
  <1>1. /\ UNCHANGED <<schemaVars, name>> /\ enabled' = enabled
        /\ pc' = [pc EXCEPT ![r] = 0]
        /\ r = "service" => api' = "failed" /\ package' = package
        /\ r = "postinst" => api' = api /\ package' = how
        /\ r = "hand" => api' = api /\ package' = package
        /\ r \in {"service", "postinst", "hand"}
    BY DEF Stop, Goes, Runner
  <1>2. /\ pc \in [Runner -> 0 .. 9] /\ TypeOK /\ PhaseInv /\ ReadyInv /\ NamedInv
        /\ "service" \in Runner /\ "postinst" \in Runner
    BY EndIs DEF Inv, TypeOK, Runner
  <1>3. /\ pc' \in [Runner -> 0 .. 9] /\ \A q \in Runner : pc'[q] \in {0, 1, pc[q]}
        /\ pc'[r] = 0 /\ \A q \in Runner \ {r} : pc'[q] = pc[q]
    BY <1>1, <1>2
  <1>4. PhaseInv'
    BY <1>1, <1>2, <1>3 DEF PhaseInv
  <1>5. ReadyInv'
    BY <1>1, <1>2 DEF ReadyInv, schemaVars
  <1>6. /\ api' \in {"boot", "up"} => \A cn \in CN : name[cn] # "none"
        /\ api' = "pre" => api = "pre" /\ UNCHANGED pc["service"]
    BY <1>1, <1>2, <1>3 DEF NamedInv
  <1>7. /\ api' \in {"stopped", "failed", "pre", "boot", "up"} /\ enabled' \in BOOLEAN
        /\ package' \in {"unpacked", "configuring", "configured", "interrupted", "failed"}
    BY <1>1, <1>2 DEF TypeOK
  <1> QED  BY <1>1, <1>3, <1>4, <1>5, <1>6, <1>7, StartsAgain

\* The unit, dpkg and the administrator.
UnitStep == \/ Start \/ StartByHand \/ ExecStart \/ Listen
            \/ Upgrade \/ Postinst \/ ConfigureAgain \/ RestartUnit
            \/ Reboot \/ MigrateByHand \/ HandDone

LEMMA UnitStepInv ==
  ASSUME Inv, UnitStep
  PROVE  Inv'
  <1> USE DEF UnitStep
  <1>0. /\ TypeOK /\ PhaseInv /\ ReadyInv /\ NamedInv /\ pc \in [Runner -> 0 .. 9]
        /\ "service" \in Runner /\ "postinst" \in Runner /\ "hand" \in Runner
    BY EndIs DEF Inv, TypeOK, Runner
  <1>1. UNCHANGED <<schemaVars, name>>
    BY DEF Start, StartByHand, ExecStart, Listen, Upgrade, Postinst, ConfigureAgain, Configure,
           RestartUnit, Reboot, MigrateByHand, HandDone, Goes
  <1>2. pc' \in [Runner -> 0 .. 9] /\ \A r \in Runner : pc'[r] \in {0, 1, pc[r]}
    BY <1>0 DEF Start, StartByHand, ExecStart, Listen, Upgrade, Postinst, ConfigureAgain,
                Configure, RestartUnit, Reboot, MigrateByHand, HandDone, Goes
  <1>3. /\ api' \in {"stopped", "failed", "pre", "boot", "up"} /\ enabled' \in BOOLEAN
        /\ package' \in {"unpacked", "configuring", "configured", "interrupted", "failed"}
    BY <1>0 DEF Start, StartByHand, ExecStart, Listen, Upgrade, Postinst, ConfigureAgain,
                Configure, RestartUnit, Reboot, MigrateByHand, HandDone, unitVars, TypeOK
  <1>4. PhaseInv'
    BY <1>0, EndIs
       DEF Start, StartByHand, ExecStart, Listen, Upgrade, Postinst, ConfigureAgain, Configure,
           RestartUnit, Reboot, MigrateByHand, HandDone, Goes, unitVars, PhaseInv, Runner
  <1>5. api' = "pre" => pc'["service"] = 1 \/ (api = "pre" /\ UNCHANGED pc["service"])
    BY <1>0
       DEF Start, StartByHand, ExecStart, Listen, Upgrade, Postinst, ConfigureAgain, Configure,
           RestartUnit, Reboot, MigrateByHand, HandDone, Goes, unitVars, Runner
  <1>6. ReadyInv' /\ (api' \in {"boot", "up"} => \A cn \in CN : name[cn] # "none")
    <2>1. CASE ExecStart
      <3>1. Passed(9)
        BY <1>0, <2>1, EndIs DEF ExecStart, Inv, AllPassed
      <3>2. Table \subseteq tables /\ Column \subseteq columns /\ Index \subseteq indexes
        BY <3>1, Columns DEF Passed, Table, Index
      <3>3. \A cn \in CN : name[cn] # "none"
        BY <1>0, <2>1, EndIs DEF ExecStart, NamedInv
      <3> QED  BY <1>1, <3>2, <3>3 DEF ReadyInv, schemaVars
    <2>2. CASE ~ExecStart
      <3>1. api' \in {"boot", "up"} => api \in {"boot", "up"}
        BY <2>2 DEF Start, StartByHand, Listen, Upgrade, Postinst, ConfigureAgain, Configure,
                    RestartUnit, Reboot, MigrateByHand, HandDone, unitVars
      <3> QED  BY <1>0, <1>1, <3>1 DEF ReadyInv, NamedInv, schemaVars
    <2> QED  BY <2>1, <2>2
  <1> QED  BY <1>1, <1>2, <1>3, <1>4, <1>5, <1>6, StartsAgain

\* The steps that store credentials.
LEMMA StoreInv ==
  ASSUME Inv, OcmAdmin \/ \E cn \in CN : Store(cn)
  PROVE  Inv'
  <1> USE DEF Inv, schemaVars, unitVars
  <1>1. /\ tables' \in {tables, tables \union {"admin_users"}}
        /\ UNCHANGED <<columns, indexes, unitVars, pc>>
    BY DEF OcmAdmin, Store
  <1>2. name' = name \/ "vpn_credentials" \in tables
    <2>1. CASE OcmAdmin  BY <2>1 DEF OcmAdmin
    <2>2. CASE \E cn \in CN : Store(cn)
      BY <2>2 DEF Store, LayerInv, ReadyInv, Table
    <2> QED  BY <2>1, <2>2
  <1>3. name' \in [CN -> {"absent", "none", "label", "cn"}]
    BY DEF OcmAdmin, Store, TypeOK
  <1>4. api \in {"pre", "boot", "up"} /\ (\A cn \in CN : name[cn] # "none")
          => \A cn \in CN : name'[cn] # "none"
    BY DEF OcmAdmin, Store, TypeOK
  <1>5. TypeOK'
    BY <1>1, <1>3 DEF TypeOK, Table
  <1>6. LayerInv'
    BY <1>1, <1>2 DEF LayerInv
  <1>7. AllPassed'
    BY <1>1 DEF AllPassed, Passed
  <1>8. NamedInv' /\ PhaseInv' /\ ReadyInv'
    BY <1>1, <1>4 DEF NamedInv, PhaseInv, ReadyInv
  <1> QED  BY <1>5, <1>6, <1>7, <1>8

LEMMA NextInv == Inv /\ [Next]_vars => Inv'
  <1> SUFFICES ASSUME Inv, [Next]_vars PROVE Inv'
    OBVIOUS
  <1>1. CASE UNCHANGED vars
    BY <1>1 DEF Inv, vars, TypeOK, LayerInv, AllPassed, Passed, NamedInv, PhaseInv, ReadyInv
  <1>2. ASSUME NEW r \in Runner, Statement(r) PROVE Inv'
    <2>1. CASE Prepares(Statements[pc[r]])
      BY <1>2, <2>1, StatementInv DEF Statement
    <2>2. CASE ~Prepares(Statements[pc[r]])
      <3>1. Stop(r, "failed") /\ pc[r] # 0
        BY <1>2, <2>2, DomainIs DEF Statement, Running
      <3>2. /\ r = "service" => api \in {"pre", "boot", "up"}
            /\ r = "postinst" => package \in {"unpacked", "configuring"}
        BY <3>1 DEF Inv, TypeOK, PhaseInv
      <3> QED  BY <3>1, <3>2, StopInv
    <2> QED  BY <2>1, <2>2
  <1>3. ASSUME NEW r \in Runner, Cut(r) PROVE Inv'
    <2>1. /\ r = "service" => api \in {"pre", "boot", "up"}
          /\ r = "postinst" => package \in {"unpacked", "configuring"}
          /\ Stop(r, "interrupted")
      BY <1>3 DEF Cut
    <2> QED  BY <2>1, StopInv
  <1>4. CASE UnitStep
    BY <1>4, UnitStepInv
  <1>5. CASE OcmAdmin \/ \E cn \in CN : Store(cn)
    BY <1>5, StoreInv
  <1> QED  BY <1>1, <1>2, <1>3, <1>4, <1>5 DEF Next, UnitStep

\* Whatever is cut short, and whoever migrates or stores beside it, a process
\* finds the statements it has run in force.
THEOREM SchemaInvariant == Spec => []SchemaInv
  <1>1. Spec => []Inv
    BY InitInv, NextInv, PTL DEF Spec
  <1> QED  BY <1>1, InvIsSchemaInv, PTL

\* The API serves on a complete schema, in which every credential has a name.
THEOREM ServesOnCurrentSchema == Spec => []ServesCurrentSchema
  <1>1. SchemaInv => ServesCurrentSchema
    BY DEF SchemaInv, ReadyInv, NamedInv, ServesCurrentSchema
  <1> QED  BY <1>1, SchemaInvariant, PTL

\* No migration and no import loses a credential or the name it was given.
THEOREM NamesAreKept == Spec => NamesKept
  <1> DEFINE Kept == \A cn \in CN : /\ name[cn] # "absent" => name'[cn] # "absent"
                                    /\ name[cn] = "label" => name'[cn] = "label"
  <1>1. TypeOK /\ LayerInv /\ [Next]_vars => [Kept]_vars
    <2> SUFFICES ASSUME TypeOK, LayerInv, Next PROVE Kept
      OBVIOUS
    <2>1. ASSUME NEW r \in Runner, Statement(r) PROVE name' = Named \/ name' = name
      BY <2>1 DEF Statement, Execute, CreateTable, AddColumnIfMissing, Backfill, CreateIndex,
                  Stop, Goes, Named
    <2>2. name' = Named => Kept
      BY DEF Named, TypeOK
    <2>3. name' = name => Kept
      OBVIOUS
    <2>4. ASSUME NEW r \in Runner, Cut(r) PROVE name' = name
      BY <2>4 DEF Cut, Stop, Goes
    <2>5. CASE UnitStep
      BY <2>3, <2>5
         DEF UnitStep, Start, StartByHand, ExecStart, Listen, Upgrade, Postinst, ConfigureAgain,
             Configure, RestartUnit, Reboot, MigrateByHand, HandDone, Goes
    <2>6. CASE OcmAdmin \/ \E cn \in CN : Store(cn)
      BY <2>6 DEF OcmAdmin, Store, TypeOK
    <2> HIDE DEF Kept
    <2> QED  BY <2>1, <2>2, <2>3, <2>4, <2>5, <2>6 DEF Next, UnitStep
  <1>2. SchemaInv => TypeOK /\ LayerInv
    BY DEF SchemaInv
  <1> QED  BY <1>1, <1>2, SchemaInvariant, PTL DEF Spec, NamesKept
=============================================================================
