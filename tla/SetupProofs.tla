----------------------------- MODULE SetupProofs -----------------------------
(***************************************************************************)
(* Proofs about Setup, for every number of runs of pglg-setup,             *)
(* interruptions and hours of look-ahead.                                  *)
(***************************************************************************)
EXTENDS Setup, SequencesExt, TLAPS

Statements == TableNames \cup {"publication", "slot", "partition", "register"}

\* What the command that runs has not done yet.
Left == ToSet(cmd.left)

Creating == cmd.name \in {"create", "replica"}

Destroying == cmd.name = "destroy"

\* a comes before b in a list of statements.
Before(left, a, b) ==
    \A j, k \in DOMAIN left : left[j] = a /\ left[k] = b => j < k

-----------------------------------------------------------------------------
(* The inductive invariant, in parts.                                      *)

SetupTypeOK ==
    /\ tables \subseteq TableNames
    /\ pub \in Nat /\ slot \in Nat /\ lsn \in Nat /\ pub < lsn /\ slot < lsn
    /\ published \in BOOLEAN /\ maintained \in BOOLEAN
    /\ cmd \in [name : {"none", "create", "replica", "destroy"}, skipPub : BOOLEAN,
                left : Seq(Statements)]
    /\ cmd.name = "none" => cmd = NoCommand

\* The order of the statements that each command relies on.
InOrder ==
    /\ Creating => /\ Before(cmd.left, "jobs", "publication")
                   /\ Before(cmd.left, "jobs", "partition")
                   /\ Before(cmd.left, "publication", "slot")
                   /\ Before(cmd.left, "partition_meta", "register")
                   /\ Before(cmd.left, "partition", "register")
    /\ Destroying => /\ Before(cmd.left, "slot", "publication")
                     /\ Before(cmd.left, "publication", "jobs")
                     /\ Before(cmd.left, "jobs", "partition_meta")

\* A create that runs has what it asked for, and one that was denied met another's table.
Privileged ==
    /\ Creating => "schema" \in granted[role]
    /\ cmd.name = "create" => "replication" \in granted[role]
    /\ cmd.name = "create" /\ ~cmd.skipPub => "database" \in granted[role]
    /\ PrivilegesSuffice

\* What a create has passed is there.
CreatedSoFar ==
    /\ Creating /\ "jobs" \notin Left => "jobs" \in tables
    /\ Creating /\ "partition_meta" \notin Left => "partition_meta" \in tables
    /\ cmd.name = "create" =>
          /\ "publication" \notin Left => cmd.skipPub \/ pub # 0
          /\ "slot" \notin Left => slot # 0
          /\ "partition" \notin Left => 0 \in parts

\* What a destroy has passed is gone, or it has ignored that it is not.
DestroyedSoFar ==
    Destroying =>
        /\ tables \subseteq Left
        /\ slot # 0 => "slot" \in Left \cup leftovers
        /\ pub # 0 => "publication" \in Left \cup leftovers

\* partition_meta names no partition that is gone, but between the drops of the two tables.
MetaAttached ==
    /\ \/ meta \subseteq parts
       \/ "partition_meta" \in leftovers
       \/ Destroying /\ "partition_meta" \in Left /\ "jobs" \notin tables
    /\ "partition_meta" \notin tables => meta = {}
    /\ maintained => "jobs" \in tables
    /\ MaintainedCovered

\* A slot is younger than its publication, or an earlier run left it so.
SlotYounger ==
    /\ slot # 0 /\ pub = 0 => leftovers \cap {"slot", "slot first"} # {}
    /\ SlotDecodes

\* A publication has the jobs table, or destroy could not drop it.
PubComplete == pub # 0 => published \/ "publication" \in leftovers

\* What the last command said is still so.
Reported ==
    /\ cmd.name # "none" => outcome = "running"
    /\ outcome = "setup complete" => pub # 0 /\ slot # 0
    /\ TeardownComplete

SetupInv ==
    /\ SetupTypeOK /\ InOrder /\ Privileged /\ CreatedSoFar /\ DestroyedSoFar
    /\ MetaAttached /\ SlotYounger /\ PubComplete /\ Reported

-----------------------------------------------------------------------------
(* Lists of statements.                                                    *)

\* The rest of a list has every statement of it but the first, in the same order, and
\* nothing that comes before the first.
LEMMA TailOfList ==
    ASSUME NEW left \in Seq(Statements), left # <<>>
    PROVE  /\ Head(left) \in Statements /\ Head(left) \in ToSet(left)
           /\ Tail(left) \in Seq(Statements)
           /\ ToSet(Tail(left)) \subseteq ToSet(left)
           /\ ToSet(left) \subseteq ToSet(Tail(left)) \cup {Head(left)}
           /\ \A a, b : Before(left, a, b) => Before(Tail(left), a, b)
           /\ \A a : Before(left, a, Head(left)) => a \notin ToSet(left)
  <1>1. /\ Len(left) \in Nat \ {0} /\ DOMAIN left = 1..Len(left) /\ Head(left) = left[1]
        /\ Tail(left) \in Seq(Statements) /\ DOMAIN Tail(left) = 1..(Len(left) - 1)
        /\ \A k \in 1..(Len(left) - 1) : Tail(left)[k] = left[k + 1]
    OBVIOUS
  <1>2. Head(left) \in Statements /\ Head(left) \in ToSet(left)
    BY <1>1 DEF ToSet
  <1>3. ToSet(Tail(left)) \subseteq ToSet(left)
    <2>. SUFFICES ASSUME NEW k \in 1..(Len(left) - 1) PROVE Tail(left)[k] \in ToSet(left)
      BY <1>1 DEF ToSet
    <2>1. k + 1 \in DOMAIN left
      BY <1>1
    <2>. QED  BY <1>1, <2>1 DEF ToSet
  <1>4. ToSet(left) \subseteq ToSet(Tail(left)) \cup {Head(left)}
    <2>. SUFFICES ASSUME NEW k \in 1..Len(left), left[k] # Head(left)
                  PROVE  left[k] \in ToSet(Tail(left))
      BY <1>1 DEF ToSet
    <2>1. k - 1 \in 1..(Len(left) - 1) /\ (k - 1) + 1 = k
      BY <1>1
    <2>. QED  BY <1>1, <2>1 DEF ToSet
  <1>5. ASSUME NEW a, NEW b, Before(left, a, b) PROVE Before(Tail(left), a, b)
    <2>. SUFFICES ASSUME NEW j \in 1..(Len(left) - 1), NEW k \in 1..(Len(left) - 1),
                         Tail(left)[j] = a, Tail(left)[k] = b
                  PROVE  j < k
      BY <1>1 DEF Before
    <2>1. j + 1 \in DOMAIN left /\ k + 1 \in DOMAIN left /\ left[j + 1] = a /\ left[k + 1] = b
      BY <1>1
    <2>2. j + 1 < k + 1
      BY <1>5, <2>1 DEF Before
    <2>. QED  BY <2>2
  <1>6. ASSUME NEW a, Before(left, a, Head(left)) PROVE a \notin ToSet(left)
    <2>. SUFFICES ASSUME NEW j \in 1..Len(left), left[j] = a PROVE FALSE
      BY <1>1 DEF ToSet
    <2>1. j < 1
      BY <1>1, <1>6 DEF Before
    <2>. QED  BY <1>1, <2>1
  <1>. QED  BY <1>1, <1>2, <1>3, <1>4, <1>5, <1>6

LEMMA EmptyList == ToSet(<<>>) = {}
  BY DEF ToSet

\* The list of create holds every statement, in the order that InOrder asks for.
LEMMA CreateList ==
    /\ CreateStatements \in Seq(Statements) /\ CreateStatements # <<>>
    /\ Statements \subseteq ToSet(CreateStatements)
    /\ Before(CreateStatements, "jobs", "publication")
    /\ Before(CreateStatements, "jobs", "partition")
    /\ Before(CreateStatements, "publication", "slot")
    /\ Before(CreateStatements, "partition_meta", "register")
    /\ Before(CreateStatements, "partition", "register")
  <1>1. CreateStatements \in Seq(Statements) /\ CreateStatements # <<>>
    BY DEF CreateStatements, Statements, TableNames
  <1>2. DOMAIN CreateStatements = {1, 2, 3, 4, 5, 6, 7, 8}
    BY DEF CreateStatements
  <1>3. Statements \subseteq ToSet(CreateStatements)
    BY <1>2 DEF CreateStatements, Statements, TableNames, ToSet
  <1>4. /\ \A k \in DOMAIN CreateStatements : CreateStatements[k] = "jobs" => k = 1
        /\ \A k \in DOMAIN CreateStatements : CreateStatements[k] = "publication" => k = 4
        /\ \A k \in DOMAIN CreateStatements : CreateStatements[k] = "slot" => k = 5
        /\ \A k \in DOMAIN CreateStatements : CreateStatements[k] = "partition_meta" => k = 3
        /\ \A k \in DOMAIN CreateStatements : CreateStatements[k] = "partition" => k = 7
        /\ \A k \in DOMAIN CreateStatements : CreateStatements[k] = "register" => k = 8
    BY <1>2 DEF CreateStatements
  <1>. QED  BY <1>1, <1>3, <1>4 DEF Before

LEMMA DestroyList ==
    /\ DestroyStatements \in Seq(Statements) /\ DestroyStatements # <<>>
    /\ TableNames \cup {"slot", "publication"} \subseteq ToSet(DestroyStatements)
    /\ Before(DestroyStatements, "slot", "publication")
    /\ Before(DestroyStatements, "publication", "jobs")
    /\ Before(DestroyStatements, "jobs", "partition_meta")
  <1>1. DestroyStatements \in Seq(Statements) /\ DestroyStatements # <<>>
    BY DEF DestroyStatements, Statements, TableNames
  <1>2. DOMAIN DestroyStatements = {1, 2, 3, 4, 5, 6}
    BY DEF DestroyStatements
  <1>3. TableNames \cup {"slot", "publication"} \subseteq ToSet(DestroyStatements)
    BY <1>2 DEF DestroyStatements, TableNames, ToSet
  <1>4. /\ \A k \in DOMAIN DestroyStatements : DestroyStatements[k] = "slot" => k = 1
        /\ \A k \in DOMAIN DestroyStatements : DestroyStatements[k] = "publication" => k = 2
        /\ \A k \in DOMAIN DestroyStatements : DestroyStatements[k] = "jobs" => k = 3
        /\ \A k \in DOMAIN DestroyStatements : DestroyStatements[k] = "partition_meta" => k = 5
    BY <1>2 DEF DestroyStatements
  <1>. QED  BY <1>1, <1>3, <1>4 DEF Before

\* A command goes on to its next statement.
Advances == cmd.left # <<>> /\ cmd' = [cmd EXCEPT !.left = Tail(@)]

LEMMA AdvanceFacts ==
    ASSUME SetupTypeOK, Advances
    PROVE  /\ cmd'.name = cmd.name /\ cmd'.skipPub = cmd.skipPub /\ cmd'.left = Tail(cmd.left)
           /\ cmd' \in [name : {"none", "create", "replica", "destroy"}, skipPub : BOOLEAN,
                        left : Seq(Statements)]
           /\ cmd.name # "none"
           /\ Head(cmd.left) \in Statements /\ Head(cmd.left) \in Left
           /\ Left' \subseteq Left /\ Left \subseteq Left' \cup {Head(cmd.left)}
           /\ \A a, b : Before(cmd.left, a, b) => Before(cmd'.left, a, b)
           /\ \A a : Before(cmd.left, a, Head(cmd.left)) => a \notin Left
  <1>1. cmd.left \in Seq(Statements) /\ cmd.left # <<>>
    BY DEF SetupTypeOK, Advances
  <1>2. /\ cmd'.name = cmd.name /\ cmd'.skipPub = cmd.skipPub /\ cmd'.left = Tail(cmd.left)
    BY DEF SetupTypeOK, Advances
  <1>3. Tail(cmd.left) \in Seq(Statements)
    BY <1>1, TailOfList
  <1>4. cmd' \in [name : {"none", "create", "replica", "destroy"}, skipPub : BOOLEAN,
                  left : Seq(Statements)]
    BY <1>3 DEF SetupTypeOK, Advances
  <1>5. cmd.name # "none"
    BY <1>1 DEF SetupTypeOK, NoCommand
  <1>. QED  BY <1>1, <1>2, <1>4, <1>5, TailOfList DEF Left

-----------------------------------------------------------------------------
(* The steps.                                                              *)

\* No command runs after the step, and the database is as it was: what the last command
\* said is all there is to show.
LEMMA CommandEnds ==
    ASSUME SetupInv, cmd' = NoCommand, UNCHANGED <<server, maintained>>,
           lsn' \in {lsn, lsn + 1}, PrivilegesSuffice', leftovers \subseteq leftovers', Reported',
           meta \subseteq parts \/ "partition_meta" \in leftovers'
    PROVE  SetupInv'
  <1>0. UNCHANGED <<tables, owned, pub, published, slot, parts, meta>>
    BY DEF server
  <1>1. /\ SetupTypeOK /\ MetaAttached /\ SlotYounger /\ PubComplete
    BY DEF SetupInv
  <1>2. SetupTypeOK'
    <2>1. NoCommand \in [name : {"none", "create", "replica", "destroy"}, skipPub : BOOLEAN,
                         left : Seq(Statements)]
      BY DEF NoCommand
    <2>2. lsn' \in Nat /\ pub' < lsn' /\ slot' < lsn'
      BY <1>0, <1>1 DEF SetupTypeOK
    <2>. QED  BY <1>0, <1>1, <2>1, <2>2 DEF SetupTypeOK
  <1>3. InOrder' /\ Privileged' /\ CreatedSoFar' /\ DestroyedSoFar'
    BY DEF NoCommand, InOrder, Privileged, CreatedSoFar, DestroyedSoFar, Creating, Destroying
  <1>4. MetaAttached'
    BY <1>0, <1>1 DEF MetaAttached, MaintainedCovered
  <1>5. SlotYounger' /\ PubComplete'
    BY <1>0, <1>1 DEF SlotYounger, SlotDecodes, PubComplete
  <1>. QED  BY <1>2, <1>3, <1>4, <1>5 DEF SetupInv

LEMMA RunCreateStep ==
    ASSUME SetupInv, NEW user \in Roles, NEW skipPub \in BOOLEAN, NEW replica \in BOOLEAN,
           RunCreate(user, skipPub, replica)
    PROVE  SetupInv'
  <1>0. /\ cmd = NoCommand /\ role' = user
        /\ UNCHANGED <<granted, server, lsn, maintained, leftovers>>
        /\ UNCHANGED <<tables, owned, pub, published, slot, parts, meta>>
    BY DEF RunCreate, server
  <1>1. /\ SetupTypeOK /\ MetaAttached /\ SlotYounger /\ PubComplete /\ Reported /\ Privileged
    BY DEF SetupInv
  <1>2. meta \subseteq parts \/ "partition_meta" \in leftovers
    BY <1>0, <1>1 DEF MetaAttached, Destroying, NoCommand
  <1>3. CASE ~(Checked(skipPub, replica) \subseteq granted[user])
    <2>1. cmd' = NoCommand /\ outcome' = "error"
      BY <1>0, <1>3 DEF RunCreate
    <2>2. Reported'
      BY <2>1 DEF Reported, TeardownComplete, NoCommand
    <2>3. PrivilegesSuffice'
      BY <2>1 DEF PrivilegesSuffice
    <2>. QED  BY <1>0, <1>2, <2>1, <2>2, <2>3, CommandEnds
  <1>4. CASE Checked(skipPub, replica) \subseteq granted[user]
    <2>1. /\ cmd' = [name |-> IF replica THEN "replica" ELSE "create", skipPub |-> skipPub,
                     left |-> CreateStatements]
          /\ outcome' = "running"
      BY <1>4 DEF RunCreate
    <2>2. /\ cmd'.name \in {"create", "replica"} /\ (cmd'.name = "replica" <=> replica)
          /\ cmd'.skipPub = skipPub /\ cmd'.left = CreateStatements
          /\ Creating' /\ ~Destroying'
      BY <2>1 DEF Creating, Destroying
    <2>3. SetupTypeOK'
      <3>1. cmd' \in [name : {"none", "create", "replica", "destroy"}, skipPub : BOOLEAN,
                      left : Seq(Statements)]
        BY <2>1, CreateList
      <3>. QED  BY <1>0, <1>1, <2>2, <3>1 DEF SetupTypeOK
    <2>4. InOrder'
      BY <2>2, CreateList DEF InOrder
    <2>5. Privileged'
      BY <1>0, <1>4, <2>1, <2>2 DEF Privileged, PrivilegesSuffice, Checked
    <2>6. CreatedSoFar' /\ DestroyedSoFar'
      BY <2>2, CreateList DEF CreatedSoFar, DestroyedSoFar, Left, Statements, TableNames
    <2>7. MetaAttached'
      BY <1>0, <1>1, <1>2 DEF MetaAttached, MaintainedCovered
    <2>8. SlotYounger' /\ PubComplete'
      BY <1>0, <1>1 DEF SlotYounger, SlotDecodes, PubComplete
    <2>9. Reported'
      BY <2>1 DEF Reported, TeardownComplete
    <2>. QED  BY <2>3, <2>4, <2>5, <2>6, <2>7, <2>8, <2>9 DEF SetupInv
  <1>. QED  BY <1>3, <1>4

LEMMA RunDestroyStep == ASSUME SetupInv, NEW user \in Roles, RunDestroy(user) PROVE SetupInv'
  <1>0. /\ cmd = NoCommand /\ UNCHANGED <<granted, server, lsn, maintained, leftovers>>
        /\ UNCHANGED <<tables, owned, pub, published, slot, parts, meta>>
    BY DEF RunDestroy, server
  <1>1. /\ SetupTypeOK /\ MetaAttached /\ SlotYounger /\ PubComplete /\ Reported /\ Privileged
    BY DEF SetupInv
  <1>2. /\ cmd' = [name |-> "destroy", skipPub |-> FALSE, left |-> DestroyStatements]
        /\ outcome' = "running"
    BY DEF RunDestroy
  <1>3. cmd'.name = "destroy" /\ cmd'.left = DestroyStatements /\ ~Creating' /\ Destroying'
    BY <1>2 DEF Creating, Destroying
  <1>4. SetupTypeOK'
    <2>1. cmd' \in [name : {"none", "create", "replica", "destroy"}, skipPub : BOOLEAN,
                    left : Seq(Statements)]
      BY <1>2, DestroyList
    <2>. QED  BY <1>0, <1>1, <1>3, <2>1 DEF SetupTypeOK
  <1>5. InOrder'
    BY <1>3, DestroyList DEF InOrder
  <1>6. Privileged' /\ CreatedSoFar'
    BY <1>2, <1>3 DEF Privileged, PrivilegesSuffice, CreatedSoFar
  <1>7. DestroyedSoFar'
    BY <1>0, <1>1, <1>3, DestroyList DEF DestroyedSoFar, Left, SetupTypeOK
  <1>8. MetaAttached'
    BY <1>0, <1>1 DEF MetaAttached, MaintainedCovered, Destroying, NoCommand
  <1>9. SlotYounger' /\ PubComplete'
    BY <1>0, <1>1 DEF SlotYounger, SlotDecodes, PubComplete
  <1>10. Reported'
    BY <1>2 DEF Reported, TeardownComplete
  <1>. QED  BY <1>4, <1>5, <1>6, <1>7, <1>8, <1>9, <1>10 DEF SetupInv

LEMMA SkipStep == ASSUME SetupInv, SkipStatement PROVE SetupInv'
  <1>0. /\ Creating /\ Advances /\ Skips(Head(cmd.left))
        /\ UNCHANGED <<granted, role, lsn, outcome, maintained, leftovers>>
        /\ UNCHANGED <<tables, owned, pub, published, slot, parts, meta>>
    BY DEF SkipStatement, Creating, Advances, server
  <1>1. /\ SetupTypeOK /\ InOrder /\ Privileged /\ CreatedSoFar /\ DestroyedSoFar
        /\ MetaAttached /\ SlotYounger /\ PubComplete /\ Reported
    BY DEF SetupInv
  <1>2. /\ cmd'.name = cmd.name /\ cmd'.skipPub = cmd.skipPub
        /\ cmd' \in [name : {"none", "create", "replica", "destroy"}, skipPub : BOOLEAN,
                     left : Seq(Statements)]
        /\ cmd.name # "none" /\ Left \subseteq Left' \cup {Head(cmd.left)}
        /\ \A a, b : Before(cmd.left, a, b) => Before(cmd'.left, a, b)
    BY <1>0, <1>1, AdvanceFacts
  <1>3. Creating' /\ ~Destroying /\ ~Destroying'
    BY <1>0, <1>2 DEF Creating, Destroying
  <1>4. SetupTypeOK'
    BY <1>0, <1>1, <1>2 DEF SetupTypeOK
  <1>5. InOrder'
    BY <1>0, <1>1, <1>2, <1>3 DEF InOrder
  <1>6. Privileged' /\ DestroyedSoFar'
    BY <1>0, <1>1, <1>2, <1>3 DEF Privileged, PrivilegesSuffice, DestroyedSoFar
  <1>7. CreatedSoFar'
    BY <1>0, <1>1, <1>2, <1>3 DEF CreatedSoFar, Skips
  <1>8. MetaAttached'
    BY <1>0, <1>1, <1>3 DEF MetaAttached, MaintainedCovered
  <1>9. SlotYounger' /\ PubComplete'
    BY <1>0, <1>1 DEF SlotYounger, SlotDecodes, PubComplete
  <1>10. Reported'
    BY <1>0, <1>1, <1>2 DEF Reported, TeardownComplete
  <1>. QED  BY <1>4, <1>5, <1>6, <1>7, <1>8, <1>9, <1>10 DEF SetupInv

\* A create has the privileges of its statement, which is denied only for a table of another
\* role that is there.
LEMMA DeniedStep ==
    ASSUME SetupInv, CreateStatement, outcome' = "denied"
    PROVE  SetupInv'
  <1>. DEFINE s == Head(cmd.left)
  <1>0. /\ Creating /\ cmd.left # <<>> /\ ~Skips(s) /\ lsn' = lsn + 1
        /\ UNCHANGED <<granted, role, maintained>>
    BY DEF CreateStatement, Creating
  <1>1. /\ SetupTypeOK /\ InOrder /\ Privileged /\ CreatedSoFar /\ MetaAttached /\ Reported
    BY DEF SetupInv
  <1>2. outcome = "running" /\ ~Destroying
    BY <1>0, <1>1 DEF Reported, Creating, Destroying
  <1>3. /\ ~(Needs(s) \subseteq granted[role] /\ NeedsToOwn(s) \subseteq owned[role])
        /\ cmd' = NoCommand /\ UNCHANGED <<server, leftovers>>
    BY <1>2 DEF CreateStatement
  <1>4. UNCHANGED <<tables, owned, pub, published, slot, parts, meta>>
    BY <1>3 DEF server
  <1>5. Needs(s) \subseteq granted[role]
    <2>1. s = "publication" => cmd.name = "create" /\ ~cmd.skipPub
      BY <1>0 DEF Skips, Creating
    <2>2. s = "slot" => cmd.name = "create"
      BY <1>0 DEF Skips, Creating
    <2>. QED  BY <1>0, <1>1, <2>1, <2>2 DEF Needs, Privileged
  <1>6. NeedsToOwn(s) \subseteq {"jobs", "partition_meta", "dlq"} \cap tables
    <2>1. \A a : Before(cmd.left, a, s) => a \notin Left
      BY <1>0, <1>1, TailOfList DEF SetupTypeOK, Left
    <2>2. s \in {"publication", "partition"} => "jobs" \in tables
      BY <1>0, <1>1, <2>1 DEF InOrder, CreatedSoFar
    <2>3. s = "register" => "partition_meta" \in tables
      BY <1>0, <1>1, <2>1 DEF InOrder, CreatedSoFar
    <2>. QED  BY <2>2, <2>3 DEF NeedsToOwn
  <1>7. PrivilegesSuffice'
    BY <1>0, <1>3, <1>4, <1>5, <1>6 DEF PrivilegesSuffice
  <1>8. Reported'
    BY <1>3 DEF Reported, TeardownComplete, NoCommand
  <1>9. meta \subseteq parts \/ "partition_meta" \in leftovers
    BY <1>1, <1>2 DEF MetaAttached
  <1>. QED  BY <1>0, <1>3, <1>7, <1>8, <1>9, CommandEnds

\* Each statement of a create that is not denied leaves its object behind.
LEMMA CreateStep == ASSUME SetupInv, CreateStatement, outcome' # "denied" PROVE SetupInv'
  <1>. DEFINE s == Head(cmd.left)
  <1>0. /\ Creating /\ cmd.left # <<>> /\ ~Skips(s) /\ lsn' = lsn + 1
        /\ UNCHANGED <<granted, role, maintained>>
    BY DEF CreateStatement, Creating
  <1>1. /\ SetupTypeOK /\ InOrder /\ Privileged /\ CreatedSoFar /\ DestroyedSoFar
        /\ MetaAttached /\ SlotYounger /\ PubComplete /\ Reported
    BY DEF SetupInv
  <1>2. Creates(s) /\ Advances /\ outcome' = outcome
    BY <1>0 DEF CreateStatement, Advances
  <1>4. /\ cmd'.name = cmd.name /\ cmd'.skipPub = cmd.skipPub
        /\ cmd' \in [name : {"none", "create", "replica", "destroy"}, skipPub : BOOLEAN,
                     left : Seq(Statements)]
        /\ cmd.name # "none" /\ s \in Statements /\ Left \subseteq Left' \cup {s}
        /\ \A a, b : Before(cmd.left, a, b) => Before(cmd'.left, a, b)
        /\ \A a : Before(cmd.left, a, s) => a \notin Left
    BY <1>1, <1>2, AdvanceFacts
  <1>5. Creating' /\ ~Destroying /\ ~Destroying'
    BY <1>0, <1>4 DEF Creating, Destroying
  <1>6. /\ leftovers \subseteq leftovers'
        /\ s = "slot" /\ slot = 0 /\ pub = 0 /\ cmd.skipPub => "slot first" \in leftovers'
    BY <1>0 DEF CreateStatement
  <1>7. /\ tables' = tables \cup (TableNames \cap {s})
        /\ pub' = IF s = "publication" /\ pub = 0 THEN lsn ELSE pub
        /\ slot' = IF s = "slot" /\ slot = 0 THEN lsn ELSE slot
        /\ parts' = IF s = "partition" THEN parts \cup {0} ELSE parts
        /\ meta' = IF s = "register" THEN meta \cup {0} ELSE meta
    BY <1>2 DEF Creates
  <1>8. published' = (published \/ (s = "publication" /\ pub = 0))
    BY <1>2 DEF Creates
  <1>9. SetupTypeOK'
    <2>1. tables' \subseteq TableNames
      BY <1>1, <1>7 DEF SetupTypeOK
    <2>2. /\ pub' \in Nat /\ slot' \in Nat /\ lsn' \in Nat /\ pub' < lsn' /\ slot' < lsn'
      BY <1>0, <1>1, <1>7 DEF SetupTypeOK
    <2>3. published' \in BOOLEAN /\ maintained' \in BOOLEAN
      BY <1>0, <1>1, <1>8 DEF SetupTypeOK
    <2>. QED  BY <1>4, <2>1, <2>2, <2>3 DEF SetupTypeOK
  <1>10. InOrder' /\ DestroyedSoFar'
    BY <1>0, <1>1, <1>4, <1>5 DEF InOrder, DestroyedSoFar
  <1>11. Privileged'
    BY <1>0, <1>1, <1>2, <1>4, <1>5 DEF Privileged, PrivilegesSuffice
  <1>12. CreatedSoFar'
    <2>0. Creating' /\ "jobs" \notin Left' => "jobs" \in tables'
      BY <1>0, <1>1, <1>4, <1>7 DEF CreatedSoFar, TableNames
    <2>1. Creating' /\ "partition_meta" \notin Left' => "partition_meta" \in tables'
      BY <1>0, <1>1, <1>4, <1>7 DEF CreatedSoFar, TableNames
    <2>2. cmd'.name = "create" /\ "publication" \notin Left' => cmd'.skipPub \/ pub' # 0
      BY <1>1, <1>4, <1>7 DEF CreatedSoFar, SetupTypeOK
    <2>3. cmd'.name = "create" /\ "slot" \notin Left' => slot' # 0
      BY <1>1, <1>4, <1>7 DEF CreatedSoFar, SetupTypeOK
    <2>4. cmd'.name = "create" /\ "partition" \notin Left' => 0 \in parts'
      BY <1>1, <1>4, <1>7 DEF CreatedSoFar
    <2>. QED  BY <2>0, <2>1, <2>2, <2>3, <2>4 DEF CreatedSoFar
  <1>13. MetaAttached'
    <2>1. s = "register" => "partition_meta" \in tables /\ 0 \in parts
      <3>1. s = "register" => "partition_meta" \notin Left /\ "partition" \notin Left
        BY <1>0, <1>1, <1>4 DEF InOrder
      <3>2. s = "register" => cmd.name = "create"
        BY <1>0 DEF Skips, Creating
      <3>. QED  BY <1>0, <1>1, <3>1, <3>2 DEF CreatedSoFar
    <2>2. meta' \subseteq parts' \/ "partition_meta" \in leftovers'
      BY <1>1, <1>5, <1>6, <1>7, <2>1 DEF MetaAttached
    <2>3. "partition_meta" \notin tables' => meta' = {}
      BY <1>1, <1>7, <2>1 DEF MetaAttached
    <2>4. maintained' => "jobs" \in tables'
      BY <1>0, <1>1, <1>7 DEF MetaAttached
    <2>5. MaintainedCovered'
      BY <1>0, <1>1, <1>6, <1>7 DEF MetaAttached, MaintainedCovered
    <2>. QED  BY <2>2, <2>3, <2>4, <2>5 DEF MetaAttached
  <1>14. SlotYounger'
    <2>1. s = "slot" => cmd.skipPub \/ pub # 0
      <3>1. s = "slot" => "publication" \notin Left
        BY <1>0, <1>1, <1>4 DEF InOrder
      <3>2. s = "slot" => cmd.name = "create"
        BY <1>0 DEF Skips, Creating
      <3>. QED  BY <1>1, <3>1, <3>2 DEF CreatedSoFar
    <2>2. slot' # 0 /\ pub' = 0 => leftovers' \cap {"slot", "slot first"} # {}
      BY <1>1, <1>6, <1>7, <2>1 DEF SlotYounger, SetupTypeOK
    <2>3. SlotDecodes'
      BY <1>1, <1>6, <1>7 DEF SlotYounger, SlotDecodes, SetupTypeOK
    <2>. QED  BY <2>2, <2>3 DEF SlotYounger
  <1>15. PubComplete'
    <2>1. CASE s = "publication" /\ pub = 0
      BY <1>8, <2>1 DEF PubComplete
    <2>2. CASE ~(s = "publication" /\ pub = 0)
      BY <1>1, <1>6, <1>7, <1>8, <2>2 DEF PubComplete
    <2>. QED  BY <2>1, <2>2
  <1>16. Reported'
    BY <1>1, <1>2, <1>4 DEF Reported, TeardownComplete
  <1>. QED  BY <1>9, <1>10, <1>11, <1>12, <1>13, <1>14, <1>15, <1>16 DEF SetupInv

\* Each statement of a destroy takes its object away, in the order that keeps what remains
\* consistent: the slot before its publication, jobs before partition_meta.
LEMMA DestroyStep == ASSUME SetupInv, DestroyStatement PROVE SetupInv'
  <1>. DEFINE s == Head(cmd.left)
  <1>0. /\ Destroying /\ Advances /\ lsn' = lsn + 1 /\ outcome' = outcome
        /\ slot' = IF s = "slot" THEN 0 ELSE slot
        /\ pub' = IF s = "publication" THEN 0 ELSE pub
        /\ tables' = tables \ {s}
        /\ parts' = IF s = "jobs" THEN {} ELSE parts
        /\ meta' = IF s = "partition_meta" THEN {} ELSE meta
        /\ leftovers' = leftovers \ (IF s = "slot" THEN {"slot", "slot first"} ELSE {s})
    BY DEF DestroyStatement, Destroying, Advances
  <1>1. /\ published' = (published /\ s \notin {"publication", "jobs"})
        /\ maintained' = (maintained /\ s # "jobs")
    BY DEF DestroyStatement
  <1>2. /\ SetupTypeOK /\ InOrder /\ Privileged /\ CreatedSoFar /\ DestroyedSoFar
        /\ MetaAttached /\ SlotYounger /\ PubComplete /\ Reported
    BY DEF SetupInv
  <1>3. /\ cmd'.name = cmd.name
        /\ cmd' \in [name : {"none", "create", "replica", "destroy"}, skipPub : BOOLEAN,
                     left : Seq(Statements)]
        /\ cmd.name # "none" /\ Left \subseteq Left' \cup {s}
        /\ \A a, b : Before(cmd.left, a, b) => Before(cmd'.left, a, b)
        /\ \A a : Before(cmd.left, a, s) => a \notin Left
    BY <1>0, <1>2, AdvanceFacts
  <1>4. ~Creating /\ ~Creating' /\ Destroying'
    BY <1>0, <1>3 DEF Creating, Destroying
  <1>5. /\ s = "publication" => "slot" \notin Left
        /\ s = "jobs" => "publication" \notin Left
        /\ s = "partition_meta" => "jobs" \notin Left
    BY <1>0, <1>2, <1>3 DEF InOrder
  <1>6. SetupTypeOK'
    <2>1. tables' \subseteq TableNames
      BY <1>0, <1>2 DEF SetupTypeOK
    <2>2. pub' \in Nat /\ slot' \in Nat /\ lsn' \in Nat /\ pub' < lsn' /\ slot' < lsn'
      <3>1. lsn' = lsn + 1 /\ pub' \in {0, pub} /\ slot' \in {0, slot}
        BY <1>0
      <3>2. pub \in Nat /\ slot \in Nat /\ lsn \in Nat /\ pub < lsn /\ slot < lsn
        BY <1>2 DEF SetupTypeOK
      <3>. QED  BY <3>1, <3>2
    <2>3. published' \in BOOLEAN /\ maintained' \in BOOLEAN
      BY <1>1
    <2>. QED  BY <1>3, <2>1, <2>2, <2>3 DEF SetupTypeOK
  <1>7. InOrder' /\ CreatedSoFar'
    BY <1>0, <1>2, <1>3, <1>4 DEF InOrder, CreatedSoFar, Creating
  <1>8. Privileged'
    BY <1>0, <1>2, <1>3, <1>4 DEF Privileged, PrivilegesSuffice, Reported, Creating
  <1>9. DestroyedSoFar'
    <2>1. tables' \subseteq Left'
      BY <1>0, <1>2, <1>3 DEF DestroyedSoFar
    <2>2. slot' # 0 => "slot" \in Left' \cup leftovers'
      BY <1>0, <1>2, <1>3 DEF DestroyedSoFar
    <2>3. pub' # 0 => "publication" \in Left' \cup leftovers'
      BY <1>0, <1>2, <1>3 DEF DestroyedSoFar
    <2>. QED  BY <2>1, <2>2, <2>3 DEF DestroyedSoFar
  <1>10. MetaAttached'
    <2>1. "partition_meta" \notin tables' => meta' = {}
      BY <1>0, <1>2 DEF MetaAttached
    <2>2. "partition_meta" \in tables' => "partition_meta" \in Left'
      BY <1>9, <1>4 DEF DestroyedSoFar
    <2>3. \/ meta' \subseteq parts' \/ "partition_meta" \in leftovers'
          \/ "partition_meta" \in Left' /\ "jobs" \notin tables'
      <3>1. CASE s = "partition_meta"
        BY <1>0, <3>1
      <3>2. CASE s = "jobs"
        BY <1>0, <2>1, <2>2, <3>2
      <3>3. CASE s \notin {"partition_meta", "jobs"}
        BY <1>0, <1>2, <1>3, <3>3 DEF MetaAttached
      <3>. QED  BY <3>1, <3>2, <3>3
    <2>4. maintained' => maintained /\ s # "jobs"
      BY <1>1
    <2>5. maintained => "jobs" \in tables
      BY <1>2 DEF MetaAttached
    <2>6. s = "partition_meta" => ~maintained
      BY <1>0, <1>2, <1>5, <2>5 DEF DestroyedSoFar
    <2>7. MaintainedCovered'
      BY <1>0, <1>2, <2>4, <2>6 DEF MetaAttached, MaintainedCovered
    <2>8. maintained' => "jobs" \in tables'
      BY <1>0, <2>4, <2>5
    <2>. QED  BY <1>4, <2>1, <2>3, <2>7, <2>8 DEF MetaAttached
  <1>11. SlotYounger'
    <2>1. s = "publication" /\ slot # 0 => "slot" \in leftovers
      BY <1>0, <1>2, <1>5 DEF DestroyedSoFar
    <2>2. CASE s = "slot"
      BY <1>0, <2>2 DEF SlotYounger, SlotDecodes
    <2>3. CASE s # "slot"
      <3>1. slot' = slot /\ (s = "publication" \/ pub' = pub) /\ (s = "publication" => pub' = 0)
        BY <1>0, <2>3
      <3>2. leftovers' = leftovers \ {s} /\ s # "slot first"
        BY <1>0, <1>2, <2>3, AdvanceFacts DEF Statements, TableNames
      <3>3. "slot" \in leftovers' <=> "slot" \in leftovers
        BY <2>3, <3>2
      <3>4. "slot first" \in leftovers' <=> "slot first" \in leftovers
        BY <3>2
      <3>. QED  BY <1>2, <2>1, <3>1, <3>3, <3>4 DEF SlotYounger, SlotDecodes
    <2>. QED  BY <2>2, <2>3
  <1>12. PubComplete'
    <2>1. CASE s = "publication"
      BY <1>0, <2>1 DEF PubComplete
    <2>2. CASE s = "jobs"
      BY <1>0, <1>2, <1>5, <2>2 DEF PubComplete, DestroyedSoFar
    <2>3. CASE s \notin {"publication", "jobs"}
      <3>1. published' = published
        BY <1>1, <1>2, <2>3 DEF SetupTypeOK
      <3>. QED  BY <1>0, <1>2, <2>3, <3>1 DEF PubComplete
    <2>. QED  BY <2>1, <2>2, <2>3
  <1>13. Reported'
    BY <1>0, <1>2, <1>3 DEF Reported, TeardownComplete
  <1>. QED  BY <1>6, <1>7, <1>8, <1>9, <1>10, <1>11, <1>12, <1>13 DEF SetupInv

LEMMA IgnoreStep == ASSUME SetupInv, DestroyIgnores PROVE SetupInv'
  <1>. DEFINE s == Head(cmd.left)
  <1>0. /\ Destroying /\ Advances /\ s \in {"slot", "publication"}
        /\ leftovers' = leftovers \cup {s}
        /\ UNCHANGED <<granted, role, lsn, outcome, maintained>>
        /\ UNCHANGED <<tables, owned, pub, published, slot, parts, meta>>
    BY DEF DestroyIgnores, Destroying, Advances, server
  <1>1. /\ SetupTypeOK /\ InOrder /\ Privileged /\ CreatedSoFar /\ DestroyedSoFar
        /\ MetaAttached /\ SlotYounger /\ PubComplete /\ Reported
    BY DEF SetupInv
  <1>2. /\ cmd'.name = cmd.name
        /\ cmd' \in [name : {"none", "create", "replica", "destroy"}, skipPub : BOOLEAN,
                     left : Seq(Statements)]
        /\ cmd.name # "none" /\ Left \subseteq Left' \cup {s}
        /\ \A a, b : Before(cmd.left, a, b) => Before(cmd'.left, a, b)
    BY <1>0, <1>1, AdvanceFacts
  <1>3. ~Creating /\ ~Creating' /\ Destroying'
    BY <1>0, <1>2 DEF Creating, Destroying
  <1>4. SetupTypeOK'
    BY <1>0, <1>1, <1>2 DEF SetupTypeOK
  <1>5. InOrder' /\ CreatedSoFar'
    BY <1>0, <1>1, <1>2, <1>3 DEF InOrder, CreatedSoFar, Creating
  <1>6. Privileged'
    BY <1>0, <1>1, <1>2, <1>3 DEF Privileged, PrivilegesSuffice, Creating
  <1>7. DestroyedSoFar'
    <2>1. tables \subseteq Left'
      BY <1>0, <1>1, <1>2 DEF DestroyedSoFar, SetupTypeOK, TableNames
    <2>. QED  BY <1>0, <1>1, <1>2, <2>1 DEF DestroyedSoFar
  <1>8. MetaAttached'
    <2>1. "partition_meta" \in Left => "partition_meta" \in Left'
      BY <1>0, <1>2
    <2>. QED  BY <1>0, <1>1, <1>3, <2>1 DEF MetaAttached, MaintainedCovered
  <1>9. SlotYounger' /\ PubComplete'
    BY <1>0, <1>1 DEF SlotYounger, SlotDecodes, PubComplete
  <1>10. Reported'
    BY <1>0, <1>1, <1>2 DEF Reported, TeardownComplete
  <1>. QED  BY <1>4, <1>5, <1>6, <1>7, <1>8, <1>9, <1>10 DEF SetupInv

\* The ends of the two commands: what they say is so.
LEMMA EndStep ==
    ASSUME SetupInv, CreateStops \/ CreateDone \/ DestroyDenied \/ DestroyStops \/ DestroyDone
    PROVE  SetupInv'
  <1>0. /\ SetupTypeOK /\ CreatedSoFar /\ DestroyedSoFar /\ MetaAttached /\ Reported
    BY DEF SetupInv
  <1>1. cmd' = NoCommand /\ UNCHANGED <<granted, server, lsn, maintained>>
    BY DEF CreateStops, CreateDone, DestroyDenied, DestroyStops, DestroyFails, DestroyDone
  <1>2. UNCHANGED <<tables, owned, pub, published, slot, parts, meta>>
    BY <1>1 DEF server
  <1>. PrivilegesSuffice'
    BY DEF CreateStops, CreateDone, DestroyDenied, DestroyStops, DestroyFails, DestroyDone,
       PrivilegesSuffice
  <1>3. CASE CreateStops
    <2>1. outcome' = "error" /\ leftovers' = leftovers /\ ~Destroying
      BY <1>3 DEF CreateStops, Destroying
    <2>2. Reported'
      BY <1>1, <2>1 DEF Reported, TeardownComplete, NoCommand
    <2>. QED  BY <1>0, <1>1, <2>1, <2>2, CommandEnds DEF MetaAttached
  <1>4. CASE CreateDone
    <2>1. /\ outcome' \in {"schema complete", "setup complete"} /\ leftovers' = leftovers
          /\ ~Destroying /\ Left = {}
          /\ outcome' = "setup complete" => cmd.name = "create" /\ ~cmd.skipPub
      BY <1>4, EmptyList DEF CreateDone, Destroying, Left
    <2>2. Reported'
      BY <1>0, <1>1, <1>2, <2>1 DEF Reported, TeardownComplete, NoCommand, CreatedSoFar
    <2>. QED  BY <1>0, <1>1, <2>1, <2>2, CommandEnds DEF MetaAttached
  <1>5. CASE DestroyDenied \/ DestroyStops
    <2>1. /\ outcome' = "error" /\ leftovers \subseteq leftovers'
          /\ "jobs" \notin tables /\ "partition_meta" \in tables
                => "partition_meta" \in leftovers'
      BY <1>5 DEF DestroyDenied, DestroyStops, DestroyFails
    <2>2. Reported'
      BY <1>1, <2>1 DEF Reported, TeardownComplete, NoCommand
    <2>3. meta \subseteq parts \/ "partition_meta" \in leftovers'
      BY <1>0, <2>1 DEF MetaAttached
    <2>. QED  BY <1>1, <2>1, <2>2, <2>3, CommandEnds
  <1>6. CASE DestroyDone
    <2>1. outcome' = "teardown complete" /\ leftovers' = leftovers /\ Destroying /\ Left = {}
      BY <1>6, EmptyList DEF DestroyDone, Destroying, Left
    <2>2. Reported'
      BY <1>0, <1>1, <1>2, <2>1 DEF Reported, TeardownComplete, NoCommand, DestroyedSoFar
    <2>. QED  BY <1>0, <1>1, <2>1, <2>2, CommandEnds DEF MetaAttached
  <1>. QED  BY <1>3, <1>4, <1>5, <1>6

\* A maintenance pass, at any point of a command, and a publication made by hand.
LEMMA OutsideStep == ASSUME SetupInv, Maintain \/ AdminPublishes PROVE SetupInv'
  <1>0. /\ SetupTypeOK /\ InOrder /\ Privileged /\ CreatedSoFar /\ DestroyedSoFar
        /\ MetaAttached /\ SlotYounger /\ PubComplete /\ Reported
    BY DEF SetupInv
  <1>1. CASE Maintain
    <2>1. /\ {"jobs", "partition_meta"} \subseteq tables /\ maintained' = TRUE
          /\ parts' = parts \cup (Hours \ meta) /\ meta' = meta \cup Hours
          /\ UNCHANGED <<granted, role, tables, owned, pub, published, slot, lsn, cmd, outcome,
                         leftovers>>
      BY <1>1 DEF Maintain
    <2>2. Left' = Left
      BY <2>1 DEF Left
    <2>3. SetupTypeOK'
      BY <1>0, <2>1 DEF SetupTypeOK
    <2>4. InOrder' /\ Privileged' /\ DestroyedSoFar'
      BY <1>0, <2>1, <2>2 DEF InOrder, Privileged, PrivilegesSuffice, DestroyedSoFar, Creating, Destroying
    <2>5. CreatedSoFar'
      BY <1>0, <2>1, <2>2 DEF CreatedSoFar, Creating
    <2>6. MetaAttached'
      <3>1. meta \subseteq parts \/ "partition_meta" \in leftovers
        BY <1>0, <2>1 DEF MetaAttached
      <3>2. MaintainedCovered'
        BY <2>1, <3>1 DEF MaintainedCovered
      <3>. QED  BY <2>1, <3>1, <3>2 DEF MetaAttached
    <2>7. SlotYounger' /\ PubComplete' /\ Reported'
      BY <1>0, <2>1 DEF SlotYounger, SlotDecodes, PubComplete, Reported, TeardownComplete
    <2>. QED  BY <2>3, <2>4, <2>5, <2>6, <2>7 DEF SetupInv
  <1>2. CASE AdminPublishes
    <2>1. /\ cmd = NoCommand /\ pub = 0 /\ "jobs" \in tables /\ pub' = lsn /\ published' = TRUE
          /\ lsn' = lsn + 1
          /\ UNCHANGED <<granted, role, tables, owned, slot, parts, meta, cmd, outcome, maintained,
                         leftovers>>
      BY <1>2 DEF AdminPublishes
    <2>2. SetupTypeOK'
      BY <1>0, <2>1 DEF SetupTypeOK
    <2>3. InOrder' /\ Privileged' /\ CreatedSoFar' /\ DestroyedSoFar'
      BY <1>0, <2>1 DEF InOrder, Privileged, PrivilegesSuffice, CreatedSoFar, DestroyedSoFar,
         Creating, Destroying, NoCommand
    <2>4. MetaAttached'
      BY <1>0, <2>1 DEF MetaAttached, MaintainedCovered, Destroying, NoCommand
    <2>5. SlotYounger' /\ PubComplete'
      BY <1>0, <2>1 DEF SlotYounger, SlotDecodes, PubComplete, SetupTypeOK
    <2>6. Reported'
      BY <1>0, <2>1 DEF Reported, TeardownComplete, SetupTypeOK
    <2>. QED  BY <2>2, <2>3, <2>4, <2>5, <2>6 DEF SetupInv
  <1>. QED  BY <1>1, <1>2

LEMMA SetupInit == Init => SetupInv
  <1>. SUFFICES ASSUME Init PROVE SetupInv
    OBVIOUS
  <1>1. /\ cmd.name = "none" /\ cmd.left = <<>>
        /\ cmd \in [name : {"none", "create", "replica", "destroy"}, skipPub : BOOLEAN,
                    left : Seq(Statements)]
    BY DEF Init, NoCommand
  <1>2. SetupTypeOK
    <2>1. pub = 0 /\ slot = 0 /\ lsn = 1 /\ tables = {} /\ cmd = NoCommand
      BY DEF Init
    <2>2. published \in BOOLEAN /\ maintained \in BOOLEAN
      BY DEF Init
    <2>. QED  BY <1>1, <2>1, <2>2 DEF SetupTypeOK
  <1>3. InOrder /\ Privileged /\ CreatedSoFar /\ DestroyedSoFar
    BY <1>1 DEF Init, InOrder, Privileged, PrivilegesSuffice, CreatedSoFar, DestroyedSoFar,
       Creating, Destroying
  <1>4. MetaAttached /\ SlotYounger /\ PubComplete /\ Reported
    BY <1>1 DEF Init, MetaAttached, MaintainedCovered, SlotYounger, SlotDecodes, PubComplete,
       Reported, TeardownComplete
  <1>. QED  BY <1>2, <1>3, <1>4 DEF SetupInv

LEMMA SetupNext == SetupInv /\ [Next]_vars => SetupInv'
  <1>. SUFFICES ASSUME SetupInv, [Next]_vars PROVE SetupInv'
    OBVIOUS
  <1>1. CASE UNCHANGED vars
    <2>1. UNCHANGED <<granted, role, tables, owned, pub, published, slot, parts, meta, lsn, cmd,
                      outcome, maintained, leftovers>>
      BY <1>1 DEF vars, server
    <2>2. SetupTypeOK' /\ InOrder' /\ Privileged'
      BY <2>1 DEF SetupInv, SetupTypeOK, InOrder, Privileged, PrivilegesSuffice, Creating,
         Destroying
    <2>3. CreatedSoFar' /\ DestroyedSoFar' /\ MetaAttached'
      BY <2>1 DEF SetupInv, CreatedSoFar, DestroyedSoFar, MetaAttached, MaintainedCovered,
         Creating, Destroying, Left
    <2>4. SlotYounger' /\ PubComplete' /\ Reported'
      BY <2>1 DEF SetupInv, SlotYounger, SlotDecodes, PubComplete, Reported, TeardownComplete
    <2>. QED  BY <2>2, <2>3, <2>4 DEF SetupInv
  <1>. QED
    BY <1>1, RunCreateStep, SkipStep, DeniedStep, CreateStep, RunDestroyStep, DestroyStep, IgnoreStep,
       EndStep, OutsideStep DEF Next

-----------------------------------------------------------------------------
(* The properties.                                                         *)

\* The inductive invariant of pglg-setup, over any sequence of runs and interruptions.
THEOREM SetupInvariant == Spec => []SetupInv
  BY SetupInit, SetupNext, PTL DEF Spec

\* checkPrivileges asks for all that the statements of runCreate need, whatever the flags and
\* whatever an earlier run left, but for the ownership of what another role has created.
THEOREM DeniedByOwnership == Spec => []PrivilegesSuffice
  <1>1. SetupInv => PrivilegesSuffice
    BY DEF SetupInv, Privileged, PrivilegesSuffice
  <1>. QED  BY <1>1, SetupInvariant, PTL

\* The slot is younger than the publication it is read with, unless destroy could not drop
\* an older one or --skip-publication made it before there was a publication.
THEOREM SlotAlwaysDecodes == Spec => []SlotDecodes
  <1>1. SetupInv => SlotDecodes
    BY DEF SetupInv, SlotYounger
  <1>. QED  BY <1>1, SetupInvariant, PTL

\* "setup complete" after a full create means that the driver can stream.
THEOREM CompleteIsUsable == Spec => []SetupUsable
  <1>1. SetupInv => SetupUsable
    <2>. SUFFICES ASSUME SetupInv, outcome = "setup complete", leftovers \subseteq {"partition_meta"}
                  PROVE  published /\ pub # 0 /\ slot # 0 /\ pub < slot
      BY DEF SetupUsable
    <2>1. pub # 0 /\ slot # 0
      BY DEF SetupInv, Reported
    <2>2. pub < slot
      BY <2>1 DEF SetupInv, SlotYounger, SlotDecodes
    <2>3. published
      BY <2>1 DEF SetupInv, PubComplete
    <2>. QED  BY <2>1, <2>2, <2>3
  <1>. QED  BY <1>1, SetupInvariant, PTL

\* "teardown complete" means that nothing is left but what destroy ignored.
THEOREM TeardownIsComplete == Spec => []TeardownComplete
  <1>1. SetupInv => TeardownComplete
    BY DEF SetupInv, Reported
  <1>. QED  BY <1>1, SetupInvariant, PTL

\* A pass of createPartitions is never misled by partition_meta, but for a destroy that
\* dropped jobs and did not come to partition_meta.
THEOREM PassCovers == Spec => []MaintainedCovered
  <1>1. SetupInv => MaintainedCovered
    BY DEF SetupInv, MetaAttached
  <1>. QED  BY <1>1, SetupInvariant, PTL
=============================================================================
