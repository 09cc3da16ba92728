-------------------------------- MODULE Migration --------------------------------
(* Opening a database that an earlier version has written: tables that are    *)
(* missing are created, those of an old shape are rebuilt, and at the end the *)
(* version is recorded.  A process may die at any point of it and another one *)
(* may open the database at the same time.                                    *)
(* callshield/database.py.                                                    *)
(*                                                                            *)
(* A step is what SQLite commits as a whole: Python begins a transaction at   *)
(* the first INSERT, UPDATE or DELETE and not at a CREATE, DROP or ALTER,     *)
(* which is committed at once if no transaction is open.                      *)
EXTENDS Naturals, FiniteSets

CONSTANTS
    Openers,   \* processes that open the database
    Entries,   \* rows the table numbers may have
    NoTable    \* a table that does not exist

SCHEMA_VERSION == 7
EventColumns == 3  \* columns of events that the first version did not have
AuditShapes == {"none", "v3", "v4", "half", "now"}

VARIABLES
    version,  \* the row of schema_version, 0 if there is none
    numbers,  \* "none", "old", "new": without and with first_seen
    entries,  \* its rows
    labels,   \* the reputations in them: "old", "mapped", "lost"
    copy,     \* the rows of numbers_new
    columns,  \* how many of the EventColumns events has
    audits,   \* the shape of screening_events
    auditCopy,\* screening_events_v4 exists
    at,       \* where an opener is
    from      \* the version it migrates from

numbersVars == <<numbers, entries, labels, copy>>
auditVars   == <<audits, auditCopy>>
databaseVars == <<version, numbersVars, columns, auditVars>>
migrationVars == <<databaseVars, at, from>>

\* What is on disk before: nothing, or what version v has left.
LeftBy(v, rows) ==
    /\ version = IF v \in 0..1 THEN 0 ELSE v
    /\ numbers = (CASE v = 0 -> "none" [] v = 1 -> "old" [] OTHER -> "new")
    /\ entries = IF v = 0 THEN {} ELSE rows
    /\ labels = IF v \in 0..1 THEN "old" ELSE "mapped"
    /\ copy = NoTable
    /\ columns = IF v = 1 THEN 0 ELSE EventColumns
    /\ audits = (CASE v \in 0..2 -> "none" [] v = 3 -> "v3" [] v \in 4..5 -> "v4" [] OTHER -> "now")
    /\ auditCopy = FALSE

MigrationInit ==
    /\ \E v \in 0..SCHEMA_VERSION, rows \in SUBSET Entries : LeftBy(v, rows)
    /\ at = [o \in Openers |-> "closed"]
    /\ from = [o \in Openers |-> 0]

At(o, step) == at[o] = step
Goto(o, step) == at' = [at EXCEPT ![o] = step]

--------------------------------------------------------------------------------

\* executescript(SCHEMA): what exists stays as it is.
CreateTables(o) ==
    /\ At(o, "closed")
    /\ numbers' = IF numbers = "none" THEN "new" ELSE numbers
    /\ audits' = IF audits = "none" THEN "now" ELSE audits
    /\ labels' = IF numbers = "none" THEN "mapped" ELSE labels
    /\ Goto(o, "detect")
    /\ UNCHANGED <<version, entries, copy, columns, auditCopy, from>>

\* Without a recorded version the columns of numbers tell; 0 is "new, or current".
Detected == IF version = 0 /\ numbers = "old" THEN 1 ELSE version

FirstStep(v) ==
    IF v <= 1 THEN "copy" ELSE IF v <= 3 THEN "audit" ELSE IF v <= 5 THEN "reputation" ELSE "stamp"

Detect(o) ==
    /\ At(o, "detect")
    /\ \/ /\ Detected \in 1..SCHEMA_VERSION - 1
          /\ from' = [from EXCEPT ![o] = Detected]
          /\ Goto(o, FirstStep(Detected))
          /\ UNCHANGED version
       \/ /\ Detected \in {0, SCHEMA_VERSION}
          /\ version' = SCHEMA_VERSION
          /\ Goto(o, "validate")
          /\ UNCHANGED from
    /\ UNCHANGED <<numbersVars, columns, auditVars>>

--------------------------------------------------------------------------------
(* v1 to v2: numbers is rebuilt and events gets more columns.                 *)

CreateCopy(o) ==
    /\ At(o, "copy")
    /\ copy' = IF copy = NoTable THEN {} ELSE copy
    /\ Goto(o, "rebuild")
    /\ UNCHANGED <<version, numbers, entries, labels, columns, auditVars, from>>

\* Labels that have been mapped are not known to the map.
Mapped == IF labels = "old" THEN "mapped" ELSE "lost"

\* Mutant: the rows that are copied do not make a transaction of what follows.
RebuildAtOnce(o) ==
    /\ At(o, "rebuild") /\ numbers # "none" /\ copy # NoTable
    /\ copy' = entries
    /\ Goto(o, "drop")
    /\ UNCHANGED <<version, numbers, entries, labels, columns, auditVars, from>>

\* With rows to copy, the first of them begins the transaction that ends with the step.
Rebuild(o) ==
    /\ At(o, "rebuild") /\ numbers # "none"
    /\ \/ /\ entries # {} /\ copy # NoTable
          /\ numbers' = "new" /\ copy' = NoTable /\ labels' = Mapped
          /\ columns' = EventColumns
          /\ Goto(o, "audit")
       \/ /\ entries = {}
          /\ Goto(o, "drop")
          /\ UNCHANGED <<numbers, copy, labels, columns>>
    /\ UNCHANGED <<version, entries, auditVars, from>>

\* Without rows nothing begins one before the events are updated.
DropNumbers(o) ==
    /\ At(o, "drop") /\ numbers # "none"
    /\ numbers' = "none" /\ entries' = {}
    /\ Goto(o, "rename")
    /\ UNCHANGED <<version, labels, copy, columns, auditVars, from>>

RenameCopy(o) ==
    /\ At(o, "rename") /\ numbers = "none" /\ copy # NoTable
    /\ numbers' = "new" /\ entries' = copy /\ copy' = NoTable /\ labels' = "mapped"
    /\ Goto(o, "columns")
    /\ UNCHANGED <<version, columns, auditVars, from>>

AddColumn(o) ==
    /\ At(o, "columns")
    /\ columns' = IF columns < EventColumns THEN columns + 1 ELSE columns
    /\ Goto(o, IF columns' < EventColumns THEN "columns" ELSE "audit")
    /\ UNCHANGED <<version, numbersVars, auditVars, from>>

--------------------------------------------------------------------------------
(* v2 to v3 creates screening_events, which SCHEMA has done.  v3 to v4        *)
(* rebuilds it, v5 to v6 adds columns to it.                                  *)

LookAtAudits(o) ==
    /\ At(o, "audit")
    /\ Goto(o, IF audits = "v3" THEN "recreate" ELSE "reputation")
    /\ UNCHANGED <<databaseVars, from>>

RecreateAudits(o) ==
    /\ At(o, "recreate")
    /\ auditCopy' = TRUE
    /\ Goto(o, "swap")
    /\ UNCHANGED <<version, numbersVars, columns, audits, from>>

SwapAudits(o) ==
    /\ At(o, "swap") /\ auditCopy
    /\ audits' = "v4" /\ auditCopy' = FALSE
    /\ Goto(o, "reputation")
    /\ UNCHANGED <<version, numbersVars, columns, from>>

AddReputation(o) ==
    /\ At(o, "reputation")
    /\ audits' = IF audits = "v4" THEN "half" ELSE "now"
    /\ Goto(o, IF audits' = "half" THEN "reputation" ELSE "stamp")
    /\ UNCHANGED <<version, numbersVars, columns, auditCopy, from>>

\* v6 to v7 creates indexes.
Stamp(o) ==
    /\ At(o, "stamp")
    /\ version' = SCHEMA_VERSION
    /\ Goto(o, "validate")
    /\ UNCHANGED <<numbersVars, columns, auditVars, from>>

\* validate_schema looks at every table but the columns of numbers and events.
Validate(o) ==
    /\ At(o, "validate")
    /\ version = SCHEMA_VERSION /\ numbers # "none" /\ audits = "now"
    /\ Goto(o, "open")
    /\ UNCHANGED <<databaseVars, from>>

\* The process dies, closes the database, or runs into an error because another one has
\* been faster: what is committed stays.
LeaveDatabase(o) ==
    /\ ~At(o, "closed")
    /\ Goto(o, "closed")
    /\ from' = [from EXCEPT ![o] = 0]
    /\ UNCHANGED databaseVars

\* A command that has the database open blocks or allows a number.
AddEntry(o, e) ==
    /\ At(o, "open") /\ numbers = "new"
    /\ entries' = entries \union {e}
    /\ UNCHANGED <<version, numbers, labels, copy, columns, auditVars, at, from>>

Opening(o) ==
    \/ CreateTables(o) \/ Detect(o) \/ CreateCopy(o) \/ Rebuild(o) \/ DropNumbers(o)
    \/ RenameCopy(o) \/ AddColumn(o) \/ LookAtAudits(o)
    \/ RecreateAudits(o) \/ SwapAudits(o) \/ AddReputation(o) \/ Stamp(o) \/ Validate(o)

MigrationNext ==
    \E o \in Openers : Opening(o) \/ LeaveDatabase(o) \/ \E e \in Entries : AddEntry(o, e)

--------------------------------------------------------------------------------
(* Properties.                                                                *)

MigrationTypeOK ==
    /\ version \in 0..SCHEMA_VERSION
    /\ numbers \in {"none", "old", "new"}
    /\ entries \subseteq Entries
    /\ labels \in {"old", "mapped", "lost"}
    /\ copy \in (SUBSET Entries) \union {NoTable}
    /\ columns \in 0..EventColumns
    /\ audits \in AuditShapes /\ auditCopy \in BOOLEAN
    /\ at \in [Openers -> {"closed", "detect", "copy", "rebuild", "drop", "rename", "columns",
                           "audit", "recreate", "swap", "reputation", "stamp", "validate", "open"}]
    /\ from \in [Openers -> 0..SCHEMA_VERSION]

\* database.py:29: "Current schema. Earlier databases are migrated on open."
OpenedIsCurrent ==
    \A o \in Openers : At(o, "open") => numbers = "new" /\ columns = EventColumns /\ audits = "now"
================================================================================
