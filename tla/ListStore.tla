-------------------------------- MODULE ListStore --------------------------------
(* Blacklist and whitelist, events, reports and imported contacts in the      *)
(* database, changed by commands and by the screens that call the same        *)
(* handlers, and read by every analysis.                                      *)
(* callshield/database.py, callshield/cli.py, callshield/universal/contacts.py*)
(*                                                                            *)
(* A client is a process with a connection of its own.  A statement outside a *)
(* transaction is a step, and a transaction is a step: one that overlaps with *)
(* another fails (FailClient) or waits.                                       *)
EXTENDS Naturals, FiniteSets, Functions

CONSTANTS
    Clients,       \* processes
    Phones,        \* normalized phone numbers
    ContactLimit,  \* contact_record_limit
    MaxRows,       \* bound: events and reports together
    NoPhone        \* a client that is doing nothing

ASSUME ListAssumption ==
    /\ IsFiniteSet(Clients) /\ Clients # {}
    /\ IsFiniteSet(Phones)
    /\ ContactLimit \in Nat

VARIABLES
    listed,    \* numbers: for each list_type the numbers that have a row
    rows,      \* events and reports: how many rows there are about a number
    contacts,  \* local_contacts: the numbers that have a row
    doing,     \* the command a client is carrying out
    phone,     \* the number it is at
    found,     \* it found a row of that number before it began its transaction
    rest       \* the numbers of an import that are still to come

listVars   == <<listed, rows, contacts>>
clientVars == <<doing, phone, found, rest>>
listStoreVars == <<listVars, clientVars>>

ListTypes == {"blacklist", "whitelist"}
LogTables == {"events", "reports"}
Commands == {"nothing", "import"} \union ListTypes

ListInit ==
    /\ listed = [l \in ListTypes |-> {}]
    /\ rows = [t \in LogTables |-> [n \in Phones |-> 0]]
    /\ contacts = {}
    /\ doing = [c \in Clients |-> "nothing"]
    /\ phone = [c \in Clients |-> NoPhone]
    /\ found = [c \in Clients |-> FALSE]
    /\ rest = [c \in Clients |-> {}]

Done(c) ==
    /\ doing' = [doing EXCEPT ![c] = "nothing"]
    /\ phone' = [phone EXCEPT ![c] = NoPhone]
    /\ found' = [found EXCEPT ![c] = FALSE]
    /\ rest' = [rest EXCEPT ![c] = {}]

--------------------------------------------------------------------------------
(* block and allow.  A number may be on both lists: the whitelist counts then.*)

\* upsert_list_entry looks for the row ...
LookForEntry(c, n, l) ==
    /\ doing[c] = "nothing"
    /\ doing' = [doing EXCEPT ![c] = l]
    /\ phone' = [phone EXCEPT ![c] = n]
    /\ found' = [found EXCEPT ![c] = n \in listed[l]]
    /\ UNCHANGED <<listVars, rest>>

\* ... and updates what it has found: there may be nothing left to update.
UpdateEntry(c) ==
    /\ doing[c] \in ListTypes /\ found[c]
    /\ Done(c)
    /\ UNCHANGED listVars

\* A row that another client has inserted meanwhile violates UNIQUE: that is FailClient.
InsertEntry(c) ==
    /\ doing[c] \in ListTypes /\ ~found[c]
    /\ phone[c] \notin listed[doing[c]]
    /\ listed' = [listed EXCEPT ![doing[c]] = @ \union {phone[c]}]
    /\ Done(c)
    /\ UNCHANGED <<rows, contacts>>

\* unblock and unallow.
RemoveEntry(c, n, l) ==
    /\ doing[c] = "nothing"
    /\ listed' = [listed EXCEPT ![l] = @ \ {n}]
    /\ UNCHANGED <<rows, contacts, clientVars>>

RowCount == SumFunction([t \in LogTables |-> SumFunction(rows[t])])

\* scan and report; the observation that is added for the timeline is in another table.
AddRow(c, t, n) ==
    /\ doing[c] = "nothing"
    /\ RowCount < MaxRows
    /\ rows' = [rows EXCEPT ![t][n] = @ + 1]
    /\ UNCHANGED <<listed, contacts, clientVars>>

--------------------------------------------------------------------------------
(* Contacts.                                                                  *)

\* parse_contact_file has read the file; numbers that occur twice are merged and
\* invalid ones left out.  upsert looks for the first one.
Import(c, numbers, n) ==
    /\ doing[c] = "nothing" /\ n \in numbers
    /\ doing' = [doing EXCEPT ![c] = "import"]
    /\ phone' = [phone EXCEPT ![c] = n]
    /\ found' = [found EXCEPT ![c] = n \in contacts]
    /\ rest' = [rest EXCEPT ![c] = numbers \ {n}]
    /\ UNCHANGED listVars

\* The next number of the import, or the end of it.
Onward(c) ==
    \/ rest[c] = {} /\ Done(c)
    \/ \E n \in rest[c] :
        /\ phone' = [phone EXCEPT ![c] = n]
        /\ found' = [found EXCEPT ![c] = n \in contacts']
        /\ rest' = [rest EXCEPT ![c] = @ \ {n}]
        /\ UNCHANGED doing

\* Mutant: the limit is for files, not for the table.
RefusedNever(c) == FALSE

\* The transaction of upsert counts only before it adds what was not there when it looked.
RefusedContact(c) == ~found[c] /\ Cardinality(contacts) >= ContactLimit

\* A contact that is refused is skipped.
UpsertContact(c) ==
    /\ doing[c] = "import"
    /\ contacts' = IF RefusedContact(c) THEN contacts ELSE contacts \union {phone[c]}
    /\ Onward(c)
    /\ UNCHANGED <<listed, rows>>

RemoveContact(c, n) ==
    /\ doing[c] = "nothing"
    /\ contacts' = contacts \ {n}
    /\ UNCHANGED <<listed, rows, clientVars>>

ClearContacts(c) ==
    /\ doing[c] = "nothing"
    /\ contacts' = {}
    /\ UNCHANGED <<listed, rows, clientVars>>

--------------------------------------------------------------------------------

\* A statement fails, because the table is locked for too long or a row is there already,
\* or the process dies: what has been committed stays.
FailClient(c) ==
    /\ doing[c] # "nothing"
    /\ Done(c)
    /\ UNCHANGED listVars

Client(c) ==
    \/ \E n \in Phones, l \in ListTypes : LookForEntry(c, n, l) \/ RemoveEntry(c, n, l)
    \/ UpdateEntry(c) \/ InsertEntry(c)
    \/ \E n \in Phones : RemoveContact(c, n) \/ \E t \in LogTables : AddRow(c, t, n)
    \/ \E numbers \in SUBSET Phones : \E n \in numbers : Import(c, numbers, n)
    \/ UpsertContact(c) \/ ClearContacts(c)
    \/ FailClient(c)

ListNext == \E c \in Clients : Client(c)

ListSpec == ListInit /\ [][ListNext]_listStoreVars

--------------------------------------------------------------------------------
(* Properties.                                                                *)

ListTypeOK ==
    /\ listed \in [ListTypes -> SUBSET Phones]
    /\ rows \in [LogTables -> [Phones -> Nat]]
    /\ contacts \subseteq Phones
    /\ doing \in [Clients -> Commands]
    /\ phone \in [Clients -> Phones \union {NoPhone}]
    /\ found \in [Clients -> BOOLEAN]
    /\ rest \in [Clients -> SUBSET Phones]

\* The limit for contacts holds, except that each client but one may refresh a contact
\* that is removed and replaced while it does so (ContactStore.upsert).
ContactsBounded == Cardinality(contacts) <= ContactLimit + Cardinality(Clients) - 1
================================================================================
