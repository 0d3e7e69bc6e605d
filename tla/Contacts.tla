------------------------------ MODULE Contacts ------------------------------
(***************************************************************************)
(* The accounts and contacts of one tenant, and the pages in which the     *)
(* contacts are listed (ContactsService).                                  *)
(*                                                                         *)
(* A request reads what it decides on without a lock, then writes with one *)
(* statement and commits: an INSERT, or an UPDATE of a row that is not     *)
(* archived.  Archiving an account leaves its contacts alone.  A row is    *)
(* dated by the start of its transaction, so it may appear after younger   *)
(* ones.  A list is read page by page, each page a request of its own, the *)
(* last row of a page being the cursor for the next.                       *)
(***************************************************************************)
EXTENDS Naturals, FiniteSets

CONSTANTS
    Accounts, Contacts, \* identities of rows, those to be inserted included
    Profiles,           \* what a row says besides: names, notes, consent, owner
    Reqs,               \* slots for requests being served at the same time
    PageSize,           \* rows of a page
    MaxClock,           \* bound of the model: dated transactions
    None                \* absence of a value

ASSUME PageAssumption == PageSize \in Nat \ {0}
ASSUME NoneAssumption == None \notin Accounts \cup Contacts \cup Profiles

VARIABLES
    account,    \* rows of accounts: state ("absent": no row), profile
    contact,    \* rows of contacts: state, account, profile, created_at, and the
                \* accounts archived before the request began that linked it
    clock,      \* now() of the next transaction that will date a row
    req,        \* what each request slot is doing
    list,       \* the list being read: its filter, cursor, page, earlier pages
    there       \* the contacts that belong to the list since its first page

vars == <<account, contact, clock, req, list, there>>

NoAccount == [state |-> "absent", profile |-> None]
NoContact == [state |-> "absent", account |-> None, profile |-> None, at |-> 0, gone |-> {}]

Active(c)   == contact[c].state = "active"
Archived    == {a \in Accounts : account[a].state = "archived"}

\* A request: where it is, what it does, to which contact and account, now()
\* and the accounts archived when it began.
Request(pc, op, c, a, at, gone) ==
    [pc |-> pc, op |-> op, c |-> c, a |-> a, at |-> at, gone |-> gone]
Fresh == Request("idle", "none", None, None, 0, {})

Goto(r, pc) == req' = [req EXCEPT ![r] = Request(pc, @.op, @.c, @.a, @.at, @.gone)]
Finish(r)   == req' = [req EXCEPT ![r] = Fresh]
At(r, pc, op) == req[r].pc = pc /\ req[r].op = op

Init ==
    /\ account = [a \in Accounts |-> NoAccount]
    /\ contact = [c \in Contacts |-> NoContact]
    /\ clock = 1
    /\ req = [r \in Reqs |-> Fresh]
    /\ list = [pc |-> "idle", of |-> None, cursor |-> None, page |-> {}, before |-> {}]
    /\ there = {}

-----------------------------------------------------------------------------
(* Accounts. *)

CreateAccount(a, p) ==
    /\ account[a].state = "absent"
    /\ account' = [account EXCEPT ![a] = [state |-> "active", profile |-> p]]
    /\ UNCHANGED <<contact, clock, req, list, there>>

\* A request that starts by reading an active account (_account_row).
LoadAccount(r, op, a) ==
    /\ req[r] = Fresh
    /\ account[a].state = "active"
    /\ req' = [req EXCEPT ![r] = Request("save", op, None, a, 0, Archived)]
    /\ UNCHANGED <<account, contact, clock, list, there>>

\* UPDATE ... WHERE archived_at IS NULL; otherwise the request is answered 404.
SaveAccount(r, op, row) ==
    /\ At(r, "save", op)
    /\ account' = IF account[req[r].a].state = "active"
                  THEN [account EXCEPT ![req[r].a] = row]
                  ELSE account
    /\ Finish(r)
    /\ UNCHANGED <<contact, clock, list, there>>

UpdateAccount(r, p) == SaveAccount(r, "edit_account", [account[req[r].a] EXCEPT !.profile = p])
ArchiveAccount(r)   == SaveAccount(r, "archive_account", [account[req[r].a] EXCEPT !.state = "archived"])

-----------------------------------------------------------------------------
(* Contacts. *)

\* The transaction of a new contact, linked to a or to no account.
BeginCreate(r, a) ==
    /\ req[r] = Fresh
    /\ clock < MaxClock
    /\ clock' = clock + 1
    /\ req' = [req EXCEPT ![r] = Request(IF a = None THEN "save" ELSE "check", "create", None, a,
                                         clock, Archived)]
    /\ UNCHANGED <<account, contact, list, there>>

\* The other requests start with an active contact (_contact_row).
LoadContact(r, op, c, a) ==
    /\ req[r] = Fresh
    /\ Active(c)
    /\ req' = [req EXCEPT ![r] = Request(IF a = None THEN "save" ELSE "check", op, c, a, 0, Archived)]
    /\ UNCHANGED <<account, contact, clock, list, there>>

\* Mutant: it is enough that the account exists.
RequireAccount(r) ==
    /\ req[r].pc = "check"
    /\ IF account[req[r].a].state # "absent" THEN Goto(r, "save") ELSE Finish(r)
    /\ UNCHANGED <<account, contact, clock, list, there>>

\* _require_active_account: the account is looked at, not locked.
RequireActiveAccount(r) ==
    /\ req[r].pc = "check"
    /\ IF account[req[r].a].state = "active" THEN Goto(r, "save") ELSE Finish(r)
    /\ UNCHANGED <<account, contact, clock, list, there>>

\* The contacts that a list shows: not archived, and of its account if it has one.
Matches(row, of) == row.state = "active" /\ of \in {None, row.account}

\* A new state of a contact; what stops matching leaves the list.
Put(c, row) ==
    /\ contact' = [contact EXCEPT ![c] = row]
    /\ there' = IF Matches(row, list.of) THEN there ELSE there \ {c}

CreateContact(r, c, p) ==
    /\ At(r, "save", "create")
    /\ contact[c].state = "absent"
    /\ Put(c, [state |-> "active", account |-> req[r].a, profile |-> p, at |-> req[r].at,
               gone |-> req[r].gone])
    /\ Finish(r)
    /\ UNCHANGED <<account, clock, list>>

\* Mutant: the UPDATE looks at nothing but the id.
SaveByIdentity(r, op, row) ==
    /\ At(r, "save", op)
    /\ Put(req[r].c, row)
    /\ Finish(r)
    /\ UNCHANGED <<account, clock, list>>

\* UPDATE ... WHERE archived_at IS NULL; otherwise the request is answered 404.
SaveContact(r, op, row) ==
    /\ At(r, "save", op)
    /\ IF Active(req[r].c) THEN Put(req[r].c, row) ELSE UNCHANGED <<contact, there>>
    /\ Finish(r)
    /\ UNCHANGED <<account, clock, list>>

Present(r) == contact[req[r].c]

\* Changes with account_id among them.
RelinkContact(r) ==
    SaveContact(r, "relink", [Present(r) EXCEPT !.account = req[r].a, !.gone = req[r].gone])

\* Other changes, a consent that is recorded, an owner that is assigned.
EditContact(r, p) == SaveContact(r, "edit", [Present(r) EXCEPT !.profile = p])

\* Mutant: a state the schema does not have.
DeleteContact(r) == SaveContact(r, "archive", [Present(r) EXCEPT !.state = "deleted"])

ArchiveContact(r) == SaveContact(r, "archive", [Present(r) EXCEPT !.state = "archived"])

\* A request ends before it has written anything.
Abort(r) ==
    /\ req[r] # Fresh
    /\ Finish(r)
    /\ UNCHANGED <<account, contact, clock, list, there>>

-----------------------------------------------------------------------------
(* The list of contacts. *)

\* A reader asks for the first page, of account of or of all.
Open(of) ==
    /\ list.pc # "reading"
    /\ list' = [pc |-> "reading", of |-> of, cursor |-> None, page |-> {}, before |-> {}]
    /\ there' = {c \in Contacts : Matches(contact[c], of)}
    /\ UNCHANGED <<account, contact, clock, req>>

\* Mutant: the row of the cursor must not be archived.
AfterActive(c, cursor) == cursor = None \/ (Active(cursor) /\ contact[c].at < contact[cursor].at)

\* Mutant: the row of the cursor is shown again.
AfterOrAt(c, cursor) == cursor = None \/ contact[c].at <= contact[cursor].at

\* Older than the row of the cursor, which may be archived by now.
After(c, cursor) == cursor = None \/ contact[c].at < contact[cursor].at

Due == {c \in Contacts : Matches(contact[c], list.of) /\ After(c, list.cursor)}

\* One page, the youngest of what is due; the query asks for one row more, and
\* there is a cursor if it got that one.
NextPage ==
    /\ list.pc = "reading"
    /\ IF Cardinality(Due) > PageSize
       THEN \E page \in SUBSET Due : \E last \in page :
              /\ Cardinality(page) = PageSize
              /\ \A c \in page : contact[c].at >= contact[last].at
              /\ \A c \in Due \ page : contact[c].at < contact[last].at
              /\ list' = [list EXCEPT !.cursor = last, !.page = page, !.before = @ \cup list.page]
       ELSE list' = [list EXCEPT !.pc = "read", !.page = Due, !.before = @ \cup list.page]
    /\ UNCHANGED <<account, contact, clock, req, there>>

-----------------------------------------------------------------------------

Links == Accounts \cup {None}

Next ==
    \/ \E a \in Accounts, p \in Profiles : CreateAccount(a, p)
    \/ \E r \in Reqs :
          \/ \E op \in {"edit_account", "archive_account"}, a \in Accounts : LoadAccount(r, op, a)
          \/ \E p \in Profiles : UpdateAccount(r, p) \/ EditContact(r, p)
          \/ ArchiveAccount(r)
          \/ \E a \in Links : BeginCreate(r, a) \/ \E c \in Contacts : LoadContact(r, "relink", c, a)
          \/ \E op \in {"edit", "archive"}, c \in Contacts : LoadContact(r, op, c, None)
          \/ RequireActiveAccount(r)
          \/ \E c \in Contacts, p \in Profiles : CreateContact(r, c, p)
          \/ RelinkContact(r) \/ ArchiveContact(r) \/ Abort(r)
    \/ \E of \in Links : Open(of)
    \/ NextPage

Spec == Init /\ [][Next]_vars

-----------------------------------------------------------------------------
(* Properties. *)

States      == {"absent", "active", "archived"}
AccountType == [state : States, profile : Profiles \cup {None}]
ContactType == [state : States, account : Links, profile : Profiles \cup {None}, at : Nat,
                gone : SUBSET Accounts]
RequestType == [pc : {"idle", "check", "save"},
                op : {"none", "edit_account", "archive_account", "create", "relink", "edit", "archive"},
                c : Contacts \cup {None}, a : Links, at : Nat, gone : SUBSET Accounts]
ListType    == [pc : {"idle", "reading", "read"}, of : Links, cursor : Contacts \cup {None},
                page : SUBSET Contacts, before : SUBSET Contacts]

\* The type of the state.
TypeOK ==
    /\ account \in [Accounts -> AccountType]
    /\ contact \in [Contacts -> ContactType]
    /\ clock \in Nat
    /\ req \in [Reqs -> RequestType]
    /\ list \in ListType
    /\ there \subseteq Contacts

\* A contact is linked to no account that was archived when the request began
\* that linked it (service.py:699-712); to one archived meanwhile, it may be.
LinkPredatesArchival ==
    \A c \in Contacts : contact[c].account # None => contact[c].account \notin contact[c].gone

\* Every row that belongs to the list from the first page to the last is shown,
\* whatever is created, archived (the row of the cursor too) and relinked between
\* two pages.
ListIsComplete == list.pc = "read" => there \subseteq list.before \cup list.page

\* The list goes from younger to older rows over the pages, no row shown twice
\* (docs/API.md:52).
ListDescends == \A c \in list.before, d \in list.page : contact[c].at > contact[d].at

\* An archived row stays as it was (docs/API.md:52), also for the requests that
\* read it before it was archived.
ArchivedStays ==
    [][/\ \A c \in Contacts : contact[c].state = "archived" => contact'[c] = contact[c]
       /\ \A a \in Accounts : account[a].state = "archived" => account'[a] = account[a]]_vars
=============================================================================
