---------------------------- MODULE Migrations -----------------------------
(***************************************************************************)
(* The schema of the database and the migrations that build it             *)
(* (src/migrations).  A table has its columns, its primary key and its     *)
(* rows, which are abstracted to the snapshot they belong to: Empty, or    *)
(* the number of the round that wrote them.  Every column is NOT NULL and  *)
(* has no default, so one cannot be added to a table that has rows; types, *)
(* lengths, sequences and unique constraints are left out.                 *)
(*                                                                         *)
(* A migration is a sequence of statements; one that fails rolls all of    *)
(* its transaction back (transactional, allOrNothing).                     *)
(***************************************************************************)
EXTENDS Integers, Sequences

Empty == 0

KEY      == "registry_key"
OPERATOR == "registry_operator"
META     == "registry_meta"
EL_META  == "el_meta_entity"
MODULES  == "sr_module_entity"

-----------------------------------------------------------------------------
(* Statements *)

Create(t, columns, key) == [op |-> "create", table |-> t, columns |-> columns, key |-> key]
Drop(t)            == [op |-> "drop", table |-> t]
Truncate(t)        == [op |-> "truncate", table |-> t]
AddColumn(t, c)    == [op |-> "add column", table |-> t, column |-> c]
DropColumn(t, c)   == [op |-> "drop column", table |-> t, column |-> c]
Rename(t, from, c) == [op |-> "rename column", table |-> t, from |-> from, column |-> c]
PrimaryKey(t, key) == [op |-> "primary key", table |-> t, key |-> key]

Possible(db, s) ==
    IF s.op = "create" THEN s.table \notin DOMAIN db
    ELSE IF s.op = "drop" THEN TRUE                      \* if exists
    ELSE /\ s.table \in DOMAIN db
         /\ LET t == db[s.table] IN
            IF s.op = "truncate" THEN TRUE
            ELSE IF s.op = "add column" THEN s.column \notin t.columns /\ t.rows = Empty
            ELSE IF s.op = "drop column" THEN s.column \in t.columns
            ELSE IF s.op = "rename column" THEN s.from \in t.columns /\ s.column \notin t.columns
            \* Rows that the wider key tells apart may clash under a narrower one.
            ELSE s.key \subseteq t.columns /\ (t.rows # Empty => t.key \subseteq s.key)

Effect(db, s) ==
    IF s.op = "create" THEN
         [t \in DOMAIN db \cup {s.table} |->
             IF t = s.table THEN [columns |-> s.columns, key |-> s.key, rows |-> Empty] ELSE db[t]]
    ELSE IF s.op = "drop" THEN [t \in DOMAIN db \ {s.table} |-> db[t]]
    ELSE IF s.op = "truncate" THEN [db EXCEPT ![s.table].rows = Empty]
    ELSE IF s.op = "add column" THEN [db EXCEPT ![s.table].columns = @ \cup {s.column}]
    ELSE IF s.op = "drop column" THEN [db EXCEPT ![s.table].columns = @ \ {s.column}]
    ELSE IF s.op = "rename column" THEN
         [db EXCEPT ![s.table].columns = (@ \ {s.from}) \cup {s.column}]
    ELSE [db EXCEPT ![s.table].key = s.key]

\* What a statement makes of the databases it can be executed in.
After(result, s) == {Effect(d, s) : d \in {e \in result : Possible(e, s)}}

\* The database after the statements, or none when one of them fails.
Execute(db, statements) ==
    LET result[n \in 0..Len(statements)] ==
            IF n = 0 THEN {db} ELSE After(result[n - 1], statements[n])
    IN  result[Len(statements)]

-----------------------------------------------------------------------------
(* The migrations, up and down *)

TruncateAll == <<Truncate(KEY), Truncate(OPERATOR), Truncate(EL_META), Truncate(MODULES)>>

Migration20220225153937 ==
    [ up |-> << Create(KEY, {"index", "operator_index", "key", "deposit_signature", "used"},
                       {"index", "operator_index"}),
                Create(META, {"block_number", "block_hash", "keys_op_index", "timestamp"},
                       {"block_number"}),
                Create(OPERATOR, {"index", "active", "name", "reward_address", "staking_limit",
                                  "stopped_validators", "total_signing_keys", "used_signing_keys"},
                       {"index"}) >>,
      down |-> << Drop(KEY), Drop(META), Drop(OPERATOR) >> ]

Migration20230903183749 ==
    [ up |-> << Truncate(KEY), Truncate(OPERATOR), Truncate(META),
                Create(EL_META, {"block_number", "block_hash", "timestamp"},
                       {"block_number", "block_hash"}),
                Create(MODULES, {"id", "module_id", "staking_module_address", "staking_module_fee",
                                 "treasury_fee", "target_share", "status", "name",
                                 "last_deposit_at", "last_deposit_block",
                                 "exited_validators_count", "type", "active", "nonce"},
                       {"id"}),
                Drop(META),
                AddColumn(KEY, "module_address"),
                PrimaryKey(KEY, {"index", "operator_index", "module_address"}),
                AddColumn(OPERATOR, "module_address"),
                PrimaryKey(OPERATOR, {"index", "module_address"}) >>,
      down |-> << Truncate(KEY), Truncate(OPERATOR),
                  Create(META, {"block_number", "block_hash", "keys_op_index", "timestamp"},
                         {"block_number"}),
                  Drop(EL_META), Drop(MODULES),
                  DropColumn(KEY, "module_address"),
                  PrimaryKey(KEY, {"index", "operator_index"}),
                  DropColumn(OPERATOR, "module_address"),
                  PrimaryKey(OPERATOR, {"index"}) >> ]

Migration20230920142658 ==
    [ up   |-> << Rename(MODULES, "staking_module_fee", "module_fee") >>,
      down |-> << Rename(MODULES, "module_fee", "staking_module_fee") >> ]

\* Mutant of Migration20231225124800: down forgets a table.
Migration20231225124800Half ==
    [ up   |-> TruncateAll \o << AddColumn(EL_META, "last_changed_block_hash"),
                                 AddColumn(OPERATOR, "finalized_used_signing_keys"),
                                 AddColumn(MODULES, "last_changed_block_hash") >>,
      down |-> TruncateAll \o << DropColumn(EL_META, "last_changed_block_hash"),
                                 DropColumn(MODULES, "last_changed_block_hash") >> ]

Migration20231225124800 ==
    [ up   |-> TruncateAll \o << AddColumn(EL_META, "last_changed_block_hash"),
                                 AddColumn(OPERATOR, "finalized_used_signing_keys"),
                                 AddColumn(MODULES, "last_changed_block_hash") >>,
      down |-> TruncateAll \o << DropColumn(EL_META, "last_changed_block_hash"),
                                 DropColumn(OPERATOR, "finalized_used_signing_keys"),
                                 DropColumn(MODULES, "last_changed_block_hash") >> ]

\* Mutant of Migration20240904131054: down drops another column.
Migration20240904131054Operator ==
    [ up   |-> TruncateAll \o << AddColumn(KEY, "vetted") >>,
      down |-> TruncateAll \o << DropColumn(KEY, "module_address") >> ]

Migration20240904131054 ==
    [ up   |-> TruncateAll \o << AddColumn(KEY, "vetted") >>,
      down |-> TruncateAll \o << DropColumn(KEY, "vetted") >> ]

\* Mutant of Migration20260211225056: no table is emptied.
Migration20260211225056InPlace ==
    [ up   |-> << AddColumn(MODULES, "withdrawal_credentials_type") >>,
      down |-> << DropColumn(MODULES, "withdrawal_credentials_type") >> ]

Migration20260211225056 ==
    [ up   |-> TruncateAll \o << AddColumn(MODULES, "withdrawal_credentials_type") >>,
      down |-> TruncateAll \o << DropColumn(MODULES, "withdrawal_credentials_type") >> ]

\* Mutant of Migration20260526160937: up empties only the table it changes.
Migration20260526160937OneTable ==
    [ up   |-> << Truncate(OPERATOR), AddColumn(OPERATOR, "depositable_validators_count") >>,
      down |-> TruncateAll \o << DropColumn(OPERATOR, "depositable_validators_count") >> ]

Migration20260526160937 ==
    [ up   |-> TruncateAll \o << AddColumn(OPERATOR, "depositable_validators_count") >>,
      down |-> TruncateAll \o << DropColumn(OPERATOR, "depositable_validators_count") >> ]

\* The list of migrations, in the order of their names.
findMigrations ==
    << Migration20220225153937, Migration20230903183749, Migration20230920142658,
       Migration20231225124800, Migration20240904131054, Migration20260211225056,
       Migration20260526160937 >>

Versions == DOMAIN findMigrations

\* The pending migrations in the order of their names.
RunUp(db, pending) ==
    LET upTo[v \in 0..Len(findMigrations)] ==
            IF v = 0 THEN {db}
            ELSE IF v \notin pending THEN upTo[v - 1]
            ELSE UNION {Execute(d, findMigrations[v].up) : d \in upTo[v - 1]}
    IN  upTo[Len(findMigrations)]

RunDown(db, version) == Execute(db, findMigrations[version].down)

NoTables == [t \in {} |-> [columns |-> {}, key |-> {}, rows |-> Empty]]

-----------------------------------------------------------------------------
(* The entities of this release: the columns and the key of each table *)

Entities ==
    [ registry_key |->
        [columns |-> {"index", "operator_index", "key", "deposit_signature", "used",
                      "module_address", "vetted"},
         key |-> {"index", "operator_index", "module_address"}],
      registry_operator |->
        [columns |-> {"index", "active", "name", "reward_address", "staking_limit",
                      "stopped_validators", "total_signing_keys", "used_signing_keys",
                      "module_address", "finalized_used_signing_keys",
                      "depositable_validators_count"},
         key |-> {"index", "module_address"}],
      el_meta_entity |->
        [columns |-> {"block_number", "block_hash", "timestamp", "last_changed_block_hash"},
         key |-> {"block_number", "block_hash"}],
      sr_module_entity |->
        [columns |-> {"id", "module_id", "staking_module_address", "module_fee", "treasury_fee",
                      "target_share", "status", "name", "last_deposit_at", "last_deposit_block",
                      "exited_validators_count", "type", "active", "nonce",
                      "last_changed_block_hash", "withdrawal_credentials_type"},
         key |-> {"id"}] ]
=============================================================================
