-------------------------------- MODULE Setup --------------------------------
(***************************************************************************)
(* pglg-setup: create and destroy, statement by statement, against a       *)
(* database on which they may be interrupted (their context ends after 30  *)
(* seconds) and run again, in any order and as any of several roles.  A    *)
(* pass of the driver's partition maintenance may come at any time.        *)
(*                                                                         *)
(* A role is neither a superuser nor a member of another one, and nobody   *)
(* has granted it anything on the tables of another one.                   *)
(*                                                                         *)
(* WAL positions are numbers.  A slot decodes a change with the catalog as *)
(* it was at that change, so the publication must be older than the slot.  *)
(* A partition is its hour, of the few the maintenance looks ahead; hour 0 *)
(* is the current one.                                                     *)
(***************************************************************************)
EXTENDS Naturals, Sequences

CONSTANTS
    Roles,         \* the roles that pglg-setup is run as
    Hours,         \* the hours from now to the end of the look-ahead
    MaxCommands,   \* bound: runs of pglg-setup
    MaxFaults      \* bound: interruptions

ASSUME HoursAssumption == 0 \in Hours
ASSUME BoundsAssumption == MaxCommands \in Nat /\ MaxFaults \in Nat

VARIABLES
    granted,       \* privileges of each role
    role,          \* the connected one, of the command that runs or of the last
    tables,        \* tables that exist
    owned,         \* what each role owns of them, and "publication"
    pub,           \* where the publication was created, 0 if there is none
    published,     \* it has the jobs table
    slot,          \* where the slot was created, 0 if there is none
    parts, meta,   \* hours with an attached partition, and with a row in partition_meta
    lsn,
    cmd,           \* the command that runs: its flags and what is left of its statements
    outcome,       \* how the last command ended
    maintained,    \* history: a pass has completed since jobs was created
    leftovers,     \* history: what earlier runs left that a later create does not put right
    commands, faults

server == <<tables, owned, pub, published, slot, parts, meta>>
vars   == <<granted, role, server, lsn, cmd, outcome, maintained, leftovers, commands, faults>>

TableNames == {"jobs", "cursor", "partition_meta", "dlq"}

Privileges == {"replication", "schema", "database"}

CreateStatementsMutant ==
    <<"jobs", "cursor", "partition_meta", "publication", "slot", "dlq", "register", "partition">>

\* The migrations in the order of their names (readSQLFiles), and the initial partition.
CreateStatements ==
    <<"jobs", "cursor", "partition_meta", "publication", "slot", "dlq", "partition", "register">>

DestroyStatementsMutant == <<"slot", "publication", "jobs", "cursor", "dlq">>

DestroyStatementsSwapped == <<"publication", "slot", "jobs", "cursor", "partition_meta", "dlq">>

DestroyStatementsJobsFirst == <<"slot", "jobs", "publication", "cursor", "partition_meta", "dlq">>

DestroyStatements == <<"slot", "publication", "jobs", "cursor", "partition_meta", "dlq">>

NoCommand == [name |-> "none", skipPub |-> FALSE, left |-> <<>>]

-----------------------------------------------------------------------------
(* The privileges that checkPrivileges asks for, those the statements need *)
(* and the tables that they need to own, which it does not ask for.        *)

CheckedMutant(skipPub, replica) ==
    {"schema"} \cup (IF skipPub \/ replica THEN {} ELSE {"replication", "database"})

Checked(skipPub, replica) ==
    {"schema"} \cup (IF replica THEN {} ELSE {"replication"})
               \cup (IF skipPub \/ replica THEN {} ELSE {"database"})

Needs(s) ==
    CASE s = "publication" -> IF pub = 0 THEN {"database"} ELSE {}
      [] s = "slot" -> IF slot = 0 THEN {"replication"} ELSE {}
      [] s = "register" -> {}
      [] OTHER -> {"schema"}

\* FOR TABLE, CREATE INDEX (its IF NOT EXISTS comes later), PARTITION OF and INSERT.
NeedsToOwn(s) ==
    CASE s = "publication" /\ pub = 0 -> {"jobs"}
      [] s = "dlq" -> {"dlq"} \cap tables
      [] s = "partition" /\ 0 \notin parts -> {"jobs"}
      [] s = "register" -> {"partition_meta"}
      [] OTHER -> {}

-----------------------------------------------------------------------------
(* create.                                                                 *)

RunCreate(user, skipPub, replica) ==
    /\ cmd = NoCommand
    /\ role' = user
    /\ commands < MaxCommands
    /\ commands' = commands + 1
    /\ IF Checked(skipPub, replica) \subseteq granted[user]
       THEN /\ cmd' = [name |-> IF replica THEN "replica" ELSE "create", skipPub |-> skipPub,
                       left |-> CreateStatements]
            /\ outcome' = "running"
       ELSE UNCHANGED cmd /\ outcome' = "error"
    /\ UNCHANGED <<granted, server, lsn, maintained, leftovers, faults>>

\* What a role that creates it will own.
Missing == (TableNames \ tables) \cup (IF pub = 0 THEN {"publication"} ELSE {})

\* One file or statement of create; every one does nothing if its object is there.
Creates(s) ==
    /\ tables' = tables \cup (TableNames \cap {s})
    /\ owned' = [owned EXCEPT ![role] = @ \cup ({s} \cap Missing)]
    /\ pub' = IF s = "publication" /\ pub = 0 THEN lsn ELSE pub
    /\ published' = (published \/ (s = "publication" /\ pub = 0))
    /\ slot' = IF s = "slot" /\ slot = 0 THEN lsn ELSE slot
    /\ parts' = IF s = "partition" THEN parts \cup {0} ELSE parts
    /\ meta' = IF s = "register" THEN meta \cup {0} ELSE meta

\* --skip-publication skips the publication; --replica also the slot and the partition.
Skips(s) ==
    \/ s = "publication" /\ (cmd.skipPub \/ cmd.name = "replica")
    \/ s \in {"slot", "partition", "register"} /\ cmd.name = "replica"

SkipStatement ==
    /\ cmd.name \in {"create", "replica"} /\ cmd.left # <<>>
    /\ Skips(Head(cmd.left))
    /\ cmd' = [cmd EXCEPT !.left = Tail(@)]
    /\ UNCHANGED <<granted, role, server, lsn, outcome, maintained, leftovers, commands, faults>>

\* The next statement; one that is denied ends the command and leaves what came before.
CreateStatement ==
    LET s == Head(cmd.left)
    IN  /\ cmd.name \in {"create", "replica"} /\ cmd.left # <<>>
        /\ ~Skips(s)
        /\ IF Needs(s) \subseteq granted[role] /\ NeedsToOwn(s) \subseteq owned[role]
           THEN /\ Creates(s)
                /\ leftovers' = leftovers \cup
                       (IF s = "slot" /\ slot = 0 /\ pub = 0 /\ cmd.skipPub
                        THEN {"slot first"} ELSE {})
                /\ cmd' = [cmd EXCEPT !.left = Tail(@)]
                /\ UNCHANGED outcome
           ELSE cmd' = NoCommand /\ outcome' = "denied" /\ UNCHANGED <<server, leftovers>>
        /\ lsn' = lsn + 1
        /\ UNCHANGED <<granted, role, maintained, commands, faults>>

\* The connection or the 30 seconds end between two statements.
CreateStops ==
    /\ faults < MaxFaults
    /\ faults' = faults + 1
    /\ cmd.name \in {"create", "replica"}
    /\ cmd' = NoCommand
    /\ outcome' = "error"
    /\ UNCHANGED <<granted, role, server, lsn, maintained, leftovers, commands>>

\* main prints "setup complete" for all; only a full create has the publication and the slot.
CreateDone ==
    /\ cmd.name \in {"create", "replica"} /\ cmd.left = <<>>
    /\ outcome' = IF cmd.name = "replica" \/ cmd.skipPub THEN "schema complete" ELSE "setup complete"
    /\ cmd' = NoCommand
    /\ UNCHANGED <<granted, role, server, lsn, maintained, leftovers, commands, faults>>

-----------------------------------------------------------------------------
(* destroy.                                                                *)

RunDestroy(user) ==
    /\ cmd = NoCommand
    /\ role' = user
    /\ commands < MaxCommands
    /\ commands' = commands + 1
    /\ cmd' = [name |-> "destroy", skipPub |-> FALSE, left |-> DestroyStatements]
    /\ outcome' = "running"
    /\ UNCHANGED <<granted, server, lsn, maintained, leftovers, faults>>

\* It is there and the role may not drop it.
CannotDrop(s) ==
    \/ s = "slot" /\ slot # 0 /\ "replication" \notin granted[role]
    \/ s = "publication" /\ pub # 0 /\ s \notin owned[role]
    \/ s \in tables \ owned[role]

\* DROP TABLE jobs CASCADE takes the partitions, and the table leaves the publication.
DestroyStatement ==
    LET s == Head(cmd.left)
    IN  /\ cmd.name = "destroy" /\ cmd.left # <<>>
        /\ ~CannotDrop(s)
        /\ slot' = IF s = "slot" THEN 0 ELSE slot
        /\ pub' = IF s = "publication" THEN 0 ELSE pub
        /\ published' = (published /\ s \notin {"publication", "jobs"})
        /\ tables' = tables \ {s}
        /\ owned' = [owned EXCEPT ![role] = @ \ {s}]
        /\ parts' = IF s = "jobs" THEN {} ELSE parts
        /\ meta' = IF s = "partition_meta" THEN {} ELSE meta
        /\ maintained' = (maintained /\ s # "jobs")
        /\ lsn' = lsn + 1
        /\ leftovers' = leftovers \ (IF s = "slot" THEN {"slot", "slot first"} ELSE {s})
        /\ cmd' = [cmd EXCEPT !.left = Tail(@)]
        /\ UNCHANGED <<granted, role, outcome, commands, faults>>

\* The slot is active for a driver or not the role's to drop, or the publication is not: ignored.
DestroyIgnores ==
    LET s == Head(cmd.left)
    IN  /\ cmd.name = "destroy" /\ cmd.left # <<>>
        /\ \/ s = "slot" /\ slot # 0
           \/ s = "publication" /\ CannotDrop(s)
        /\ leftovers' = leftovers \cup {s}
        /\ cmd' = [cmd EXCEPT !.left = Tail(@)]
        /\ UNCHANGED <<granted, role, server, lsn, outcome, maintained, commands, faults>>

\* It ends with an error; past jobs, partition_meta names what is gone.
DestroyFails ==
    /\ cmd.name = "destroy" /\ cmd.left # <<>>
    /\ leftovers' = leftovers \cup
           (IF "jobs" \in tables THEN {} ELSE {"partition_meta"} \cap tables)
    /\ cmd' = NoCommand
    /\ outcome' = "error"
    /\ UNCHANGED <<granted, role, server, lsn, maintained, commands>>

DestroyDenied ==
    /\ cmd.left # <<>>
    /\ Head(cmd.left) \in TableNames /\ CannotDrop(Head(cmd.left))
    /\ DestroyFails
    /\ UNCHANGED faults

DestroyStops ==
    /\ faults < MaxFaults
    /\ faults' = faults + 1
    /\ DestroyFails

DestroyDone ==
    /\ cmd.name = "destroy" /\ cmd.left = <<>>
    /\ outcome' = "teardown complete"
    /\ cmd' = NoCommand
    /\ UNCHANGED <<granted, role, server, lsn, maintained, leftovers, commands, faults>>

-----------------------------------------------------------------------------
\* createPartitions of a driver: hours that are registered are skipped.
Maintain ==
    /\ {"jobs", "partition_meta"} \subseteq tables
    /\ parts' = parts \cup (Hours \ meta)
    /\ meta' = meta \cup Hours
    /\ maintained' = TRUE
    /\ UNCHANGED <<granted, role, tables, owned, pub, published, slot, lsn, cmd, outcome, leftovers, commands, faults>>

\* A more privileged role creates the publication for the jobs table.
AdminPublishes ==
    /\ cmd = NoCommand
    /\ pub = 0
    /\ "jobs" \in tables
    /\ pub' = lsn
    /\ published' = TRUE
    /\ lsn' = lsn + 1
    /\ UNCHANGED <<granted, role, tables, owned, slot, parts, meta, cmd, outcome, maintained, leftovers, commands, faults>>

Init ==
    /\ granted \in [Roles -> SUBSET Privileges] /\ role \in Roles
    /\ tables = {} /\ owned = [r \in Roles |-> {}]
    /\ pub = 0 /\ published = FALSE /\ slot = 0
    /\ parts = {} /\ meta = {}
    /\ lsn = 1
    /\ cmd = NoCommand /\ outcome = "none"
    /\ maintained = FALSE /\ leftovers = {}
    /\ commands = 0 /\ faults = 0

Next ==
    \/ \E user \in Roles, skipPub, replica \in BOOLEAN : RunCreate(user, skipPub, replica)
    \/ SkipStatement \/ CreateStatement \/ CreateStops \/ CreateDone
    \/ \E user \in Roles : RunDestroy(user)
    \/ DestroyStatement \/ DestroyIgnores \/ DestroyDenied \/ DestroyStops \/ DestroyDone
    \/ Maintain \/ AdminPublishes

Spec == Init /\ [][Next]_vars

-----------------------------------------------------------------------------
(* Properties.                                                             *)

\* The slot (005 in runCreate) is younger than the publication it is read with, or the
\* walsender fails on the changes in between.  pglg-setup keeps to this order across
\* interruptions, destroy and create again; what breaks it is a slot that destroy could not
\* drop, and --skip-publication before there is a publication.
SlotDecodes ==
    pub # 0 /\ slot # 0 /\ leftovers \cap {"slot", "slot first"} = {} => pub < slot

\* When a full create says "setup complete" (runCreate), whatever was there or interrupted
\* before, the publication has the outbox table and the slot can be read with it, unless
\* destroy ignored that it could not drop the one or the other.
SetupUsable ==
    outcome = "setup complete" /\ leftovers \subseteq {"partition_meta"}
        => published /\ pub # 0 /\ slot # 0 /\ pub < slot

\* When destroy says "teardown complete" (runDestroy) nothing is left of the outbox but what
\* it ignored in this run or one before; a slot that stays holds back the WAL of the whole
\* server.
TeardownComplete ==
    outcome = "teardown complete" =>
        /\ tables = {}
        /\ slot # 0 => "slot" \in leftovers
        /\ pub # 0 => "publication" \in leftovers

\* Once a pass of createPartitions has completed there are partitions up to the end of the
\* look-ahead, whatever destroy and create did before it, unless destroy dropped jobs and
\* did not come to partition_meta.
MaintainedCovered == maintained /\ "partition_meta" \notin leftovers => Hours \subseteq parts

\* A create that passes checkPrivileges stops halfway for a missing privilege only on a
\* database that another role set up, in part or in full: under every combination of flags it
\* asks for all that the statements of runCreate need, but not for the ownership of tables that
\* are there.
PrivilegesSuffice ==
    outcome = "denied" => {"jobs", "partition_meta", "dlq"} \cap (tables \ owned[role]) # {}
=============================================================================
