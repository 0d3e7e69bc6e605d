--------------------------- MODULE ContactsProofs ---------------------------
(***************************************************************************)
(* For every number of accounts, contacts and requests and every size of a *)
(* page: the type of the state, archived rows that stay as they were,      *)
(* links that predate the archival of their account, and lists that are    *)
(* complete and in order.                                                  *)
(*                                                                         *)
(* The list rests on what is still due of it: every row that belongs to it *)
(* and has not been shown is older than the row of the cursor.             *)
(***************************************************************************)
EXTENDS Contacts, TLAPS

Exists(c) == contact[c].state # "absent"

\* What a request has by the place where it is; an account that a request is
\* about to link to was not archived when it began.
Course(r) ==
    /\ req[r].pc = "check" => req[r].a \in Accounts
    /\ req[r].op \in {"edit_account", "archive_account"} => req[r].a \in Accounts
    /\ req[r].op \in {"relink", "edit", "archive"} => req[r].c \in Contacts
    /\ req[r].gone \subseteq Archived
    /\ req[r].pc = "save" => req[r].a \notin req[r].gone

\* The list as it is read.
Listing ==
    /\ \A c \in list.page \cup list.before : Exists(c)
    /\ ListDescends
    /\ list.pc = "reading" /\ list.cursor = None => list.page = {} /\ list.before = {}
    /\ list.pc = "reading" /\ list.cursor # None =>
           list.cursor \in list.page /\ \A c \in list.page : contact[c].at >= contact[list.cursor].at
    /\ \A c \in there : Matches(contact[c], list.of)
    /\ list.pc = "reading" => \A c \in there : c \in list.before \cup list.page \/ After(c, list.cursor)
    /\ ListIsComplete

Inv ==
    /\ TypeOK
    /\ \A r \in Reqs : Course(r)
    /\ LinkPredatesArchival
    /\ Listing

-----------------------------------------------------------------------------
(* Typing. *)

LEMMA FinishFacts ==
    ASSUME req \in [Reqs -> RequestType], NEW r \in Reqs, Finish(r)
    PROVE  /\ req' \in [Reqs -> RequestType]
           /\ \A q \in Reqs \ {r} : req'[q] = req[q]
           /\ req'[r] = Fresh
<1>1. Fresh \in RequestType
  BY DEF Fresh, Request, RequestType, Links
<1>2. QED
  BY <1>1 DEF Finish

LEMMA GotoFacts ==
    ASSUME req \in [Reqs -> RequestType], NEW r \in Reqs, NEW pc \in {"check", "save"}, Goto(r, pc)
    PROVE  /\ req' \in [Reqs -> RequestType]
           /\ \A q \in Reqs \ {r} : req'[q] = req[q]
           /\ req'[r].pc = pc /\ req'[r].op = req[r].op /\ req'[r].c = req[r].c
           /\ req'[r].a = req[r].a /\ req'[r].gone = req[r].gone
<1>1. Request(pc, req[r].op, req[r].c, req[r].a, req[r].at, req[r].gone) \in RequestType
  BY DEF Request, RequestType
<1>2. req'[r] = Request(pc, req[r].op, req[r].c, req[r].a, req[r].at, req[r].gone)
  BY DEF Goto
<1>3. QED
  BY <1>1, <1>2 DEF Goto, Request

\* The rows that the statements write.
LEMMA RowFacts ==
    ASSUME NEW u \in ContactType, NEW a \in Links, NEW g \in SUBSET Accounts, NEW p \in Profiles
    PROVE  /\ [u EXCEPT !.account = a, !.gone = g] \in ContactType
           /\ [u EXCEPT !.profile = p] \in ContactType
           /\ [u EXCEPT !.state = "archived"] \in ContactType
           /\ [u EXCEPT !.account = a, !.gone = g].state = u.state
           /\ [u EXCEPT !.account = a, !.gone = g].account = a
           /\ [u EXCEPT !.account = a, !.gone = g].gone = g
           /\ [u EXCEPT !.account = a, !.gone = g].at = u.at
           /\ [u EXCEPT !.profile = p].state = u.state
           /\ [u EXCEPT !.profile = p].account = u.account
           /\ [u EXCEPT !.profile = p].gone = u.gone
           /\ [u EXCEPT !.profile = p].at = u.at
           /\ [u EXCEPT !.state = "archived"].state = "archived"
           /\ [u EXCEPT !.state = "archived"].account = u.account
           /\ [u EXCEPT !.state = "archived"].gone = u.gone
           /\ [u EXCEPT !.state = "archived"].at = u.at
  BY DEF ContactType, States

-----------------------------------------------------------------------------
(* Requests: a step of r, in which no account comes back from the archive. *)

LEMMA CourseStep ==
    ASSUME Inv, NEW r \in Reqs,
           \A q \in Reqs \ {r} : req'[q] = req[q],
           Archived \subseteq Archived',
           Course(r)'
    PROVE  \A q \in Reqs : Course(q)'
<1>1. ASSUME NEW q \in Reqs \ {r} PROVE Course(q)'
  BY <1>1 DEF Inv, Course
<1>2. QED
  BY <1>1

LEMMA FreshCourse ==
    ASSUME NEW r \in Reqs, req'[r] = Fresh
    PROVE  Course(r)'
<1>1. /\ req'[r].pc = "idle" /\ req'[r].op = "none" /\ req'[r].gone = {}
  BY DEF Fresh, Request
<1>2. QED
  BY <1>1 DEF Course

-----------------------------------------------------------------------------
(* The list, when no page is read. *)

LEMMA ListQuiet ==
    ASSUME Listing, list \in ListType, list' = list, there' \in SUBSET there,
           there \in SUBSET Contacts,
           \A c \in Contacts : Exists(c) => Exists(c)' /\ contact'[c].at = contact[c].at,
           \A c \in there' : Matches(contact'[c], list.of)
    PROVE  Listing'
<1>1. /\ list.page \in SUBSET Contacts /\ list.before \in SUBSET Contacts
      /\ list.pc = "reading" /\ list.cursor # None => list.cursor \in list.page
  BY DEF ListType, Listing
<1>2. /\ \A c \in list.page \cup list.before : Exists(c)' /\ contact'[c].at = contact[c].at
      /\ \A c \in there : Exists(c)' /\ contact'[c].at = contact[c].at
  BY <1>1 DEF Listing, Matches, Exists
<1>3. ListDescends'
  BY <1>2 DEF Listing, ListDescends
<1>4. list.pc = "reading" => \A c \in there' : c \in list.before \cup list.page \/ After(c, list.cursor)'
  BY <1>1, <1>2 DEF Listing, After
<1>5. ListIsComplete'
  BY DEF Listing, ListIsComplete
<1>6. list.pc = "reading" /\ list.cursor # None =>
          \A c \in list.page : contact'[c].at >= contact'[list.cursor].at
  BY <1>1, <1>2 DEF Listing
<1>7. QED
  BY <1>1, <1>2, <1>3, <1>4, <1>5, <1>6 DEF Listing

\* One contact gets a new row, of the same date if it had one.
LEMMA PutList ==
    ASSUME TypeOK, Listing, NEW c \in Contacts, NEW row \in ContactType, Put(c, row), list' = list,
           row.state # "absent",
           Exists(c) => row.at = contact[c].at
    PROVE  Listing'
<1>1. contact' = [contact EXCEPT ![c] = row] /\ contact'[c] = row
  BY DEF Put, TypeOK
<1>2. there' \in SUBSET there /\ there \in SUBSET Contacts
  BY DEF Put, TypeOK
<1>3. \A d \in Contacts : Exists(d) => Exists(d)' /\ contact'[d].at = contact[d].at
  BY <1>1 DEF Exists, TypeOK
<1>4. ASSUME NEW d \in there' PROVE Matches(contact'[d], list.of)
  <2>1. CASE d = c
    BY <1>1, <1>4, <2>1 DEF Put
  <2>2. CASE d # c
    BY <1>1, <1>2, <1>4, <2>2 DEF Listing, TypeOK
  <2>3. QED
    BY <2>1, <2>2
<1>5. QED
  BY <1>2, <1>3, <1>4, ListQuiet DEF TypeOK

\* Such a step keeps the invariant when its row has a link that predates.
LEMMA PutStep ==
    ASSUME Inv, NEW r \in Reqs, NEW c \in Contacts, NEW row \in ContactType, Put(c, row),
           UNCHANGED <<account, clock, list>>, Finish(r),
           row.state # "absent",
           Exists(c) => row.at = contact[c].at,
           row.account # None => row.account \notin row.gone
    PROVE  Inv'
<1>1. /\ req' \in [Reqs -> RequestType]
      /\ \A q \in Reqs \ {r} : req'[q] = req[q]
      /\ req'[r] = Fresh
  BY FinishFacts DEF Inv, TypeOK
<1>2. contact' \in [Contacts -> ContactType] /\ there' \subseteq Contacts
  BY DEF Put, Inv, TypeOK
<1>3. TypeOK'
  BY <1>1, <1>2 DEF Inv, TypeOK
<1>4. \A q \in Reqs : Course(q)'
  BY <1>1, CourseStep, FreshCourse DEF Archived
<1>5. LinkPredatesArchival'
  <2>1. contact'[c] = row /\ \A d \in Contacts \ {c} : contact'[d] = contact[d]
    BY DEF Put, Inv, TypeOK
  <2>2. QED
    BY <2>1 DEF Inv, LinkPredatesArchival
<1>6. Listing'
  BY PutList DEF Inv
<1>7. QED
  BY <1>3, <1>4, <1>5, <1>6 DEF Inv

\* A step that touches neither contacts nor list.
LEMMA QuietStep ==
    ASSUME Inv, NEW r \in Reqs,
           req' \in [Reqs -> RequestType],
           \A q \in Reqs \ {r} : req'[q] = req[q],
           Course(r)',
           account' \in [Accounts -> AccountType], clock' \in Nat,
           Archived \subseteq Archived',
           UNCHANGED <<contact, list, there>>
    PROVE  Inv'
<1>1. TypeOK'
  BY DEF Inv, TypeOK
<1>2. \A q \in Reqs : Course(q)'
  BY CourseStep
<1>3. LinkPredatesArchival' /\ Listing'
  BY DEF Inv, LinkPredatesArchival, Listing, ListDescends, ListIsComplete, Exists, After
<1>4. QED
  BY <1>1, <1>2, <1>3 DEF Inv

-----------------------------------------------------------------------------
(* The requests, one lemma for those that write alike. *)

LEMMA SaveAccountStep ==
    ASSUME Inv, NEW r \in Reqs, NEW op \in {"edit_account", "archive_account"},
           NEW row \in AccountType, row.state # "absent", SaveAccount(r, op, row)
    PROVE  Inv'
<1>1. /\ req' \in [Reqs -> RequestType]
      /\ \A q \in Reqs \ {r} : req'[q] = req[q]
      /\ req'[r] = Fresh
  BY FinishFacts DEF SaveAccount, Inv, TypeOK
<1>2. account' \in [Accounts -> AccountType] /\ Archived \subseteq Archived'
  BY DEF SaveAccount, Inv, TypeOK, Archived
<1>3. QED
  BY <1>1, <1>2, FreshCourse, QuietStep DEF SaveAccount, Inv, TypeOK

LEMMA SaveContactStep ==
    ASSUME Inv, NEW r \in Reqs, NEW op \in {"relink", "edit", "archive"},
           NEW row, SaveContact(r, op, row),
           Active(req[r].c) =>
               /\ row \in ContactType /\ row.state # "absent" /\ row.at = contact[req[r].c].at
               /\ row.account # None => row.account \notin row.gone
    PROVE  Inv'
<1>1. req[r].c \in Contacts /\ Finish(r) /\ UNCHANGED <<account, clock, list>>
  BY DEF SaveContact, At, Inv, Course
<1>2. CASE Active(req[r].c)
  BY <1>1, <1>2, PutStep DEF SaveContact
<1>3. CASE ~Active(req[r].c)
  <2>1. /\ req' \in [Reqs -> RequestType]
        /\ \A q \in Reqs \ {r} : req'[q] = req[q]
        /\ req'[r] = Fresh
    BY <1>1, FinishFacts DEF Inv, TypeOK
  <2>2. UNCHANGED <<contact, list, there>>
    BY <1>1, <1>3 DEF SaveContact
  <2>3. QED
    BY <1>1, <2>1, <2>2, FreshCourse, QuietStep DEF Archived, Inv, TypeOK
<1>4. QED
  BY <1>2, <1>3

-----------------------------------------------------------------------------

LEMMA InitInv == Init => Inv
<1> SUFFICES ASSUME Init PROVE Inv
  OBVIOUS
<1>1. TypeOK
  BY DEF Init, TypeOK, NoAccount, NoContact, Fresh, Request, States, AccountType, ContactType,
         RequestType, ListType, Links
<1>2. \A r \in Reqs : Course(r)
  BY DEF Init, Course, Fresh, Request
<1>3. LinkPredatesArchival
  BY DEF Init, LinkPredatesArchival, NoContact
<1>4. Listing
  BY DEF Init, Listing, ListDescends, ListIsComplete
<1>5. QED
  BY <1>1, <1>2, <1>3, <1>4 DEF Inv

LEMMA CreateAccountStep ==
    ASSUME Inv, NEW a \in Accounts, NEW p \in Profiles, CreateAccount(a, p)
    PROVE  Inv'
<1>1. account' \in [Accounts -> AccountType] /\ Archived \subseteq Archived'
  BY DEF CreateAccount, Inv, TypeOK, AccountType, States, Archived
<1>2. UNCHANGED <<contact, clock, req, list, there>>
  BY DEF CreateAccount
<1>3. \A r \in Reqs : Course(r)'
  BY <1>1, <1>2 DEF Inv, Course
<1>4. LinkPredatesArchival' /\ Listing'
  BY <1>2 DEF Inv, LinkPredatesArchival, Listing, ListDescends, ListIsComplete, Exists, After
<1>5. QED
  BY <1>1, <1>2, <1>3, <1>4 DEF Inv, TypeOK

LEMMA AccountSteps ==
    ASSUME Inv, NEW r \in Reqs,
           \/ \E p \in Profiles : UpdateAccount(r, p)
           \/ ArchiveAccount(r)
           \/ \E op \in {"edit_account", "archive_account"}, a \in Accounts : LoadAccount(r, op, a)
    PROVE  Inv'
<1>2. ASSUME NEW p \in Profiles, UpdateAccount(r, p) PROVE Inv'
  <2>1. req[r].a \in Accounts
    BY <1>2 DEF UpdateAccount, SaveAccount, At, Inv, Course
  <2>2. CASE account[req[r].a].state = "active"
    <3>1. [account[req[r].a] EXCEPT !.profile = p] \in AccountType
      BY <2>1 DEF Inv, TypeOK, AccountType
    <3>2. [account[req[r].a] EXCEPT !.profile = p].state # "absent"
      BY <2>1, <2>2 DEF Inv, TypeOK, AccountType
    <3>3. QED
      BY <1>2, <3>1, <3>2, SaveAccountStep DEF UpdateAccount
  <2>3. CASE account[req[r].a].state # "active"
    <3>1. /\ req' \in [Reqs -> RequestType]
          /\ \A q \in Reqs \ {r} : req'[q] = req[q]
          /\ req'[r] = Fresh
      BY <1>2, FinishFacts DEF UpdateAccount, SaveAccount, Inv, TypeOK
    <3>2. UNCHANGED <<account, contact, clock, list, there>>
      BY <1>2, <2>3 DEF UpdateAccount, SaveAccount
    <3>3. QED
      BY <3>1, <3>2, FreshCourse, QuietStep DEF Archived, Inv, TypeOK
  <2>4. QED
    BY <2>2, <2>3
<1>3. CASE ArchiveAccount(r)
  <2>1. req[r].a \in Accounts
    BY <1>3 DEF ArchiveAccount, SaveAccount, At, Inv, Course
  <2>2. [account[req[r].a] EXCEPT !.state = "archived"] \in AccountType
    BY <2>1 DEF Inv, TypeOK, AccountType, States
  <2>3. [account[req[r].a] EXCEPT !.state = "archived"].state # "absent"
    BY <2>1 DEF Inv, TypeOK, AccountType
  <2>4. QED
    BY <1>3, <2>2, <2>3, SaveAccountStep DEF ArchiveAccount
<1>4. ASSUME NEW op \in {"edit_account", "archive_account"}, NEW a \in Accounts, LoadAccount(r, op, a)
      PROVE  Inv'
  <2>1. /\ req' \in [Reqs -> RequestType]
        /\ \A q \in Reqs \ {r} : req'[q] = req[q]
        /\ req'[r].pc = "save" /\ req'[r].op = op
        /\ req'[r].a = a /\ req'[r].gone = Archived
    <3> DEFINE q == Request("save", op, None, a, 0, Archived)
    <3>1. req \in [Reqs -> RequestType] /\ req' = [req EXCEPT ![r] = q]
      BY <1>4 DEF LoadAccount, Inv, TypeOK
    <3>2. "save" \in {"check", "save"}
      OBVIOUS
    <3>3. q \in RequestType /\ q.pc = "save" /\ q.op = op /\ q.c = None /\ q.a = a /\ q.gone = Archived
      BY <3>2 DEF Request, RequestType, Archived, Links, Inv, TypeOK
    <3> HIDE DEF q
    <3>4. QED
      BY <3>1, <3>3
  <2>2. UNCHANGED <<account, contact, clock, list, there>> /\ a \notin Archived
    BY <1>4 DEF LoadAccount, Archived
  <2>3. Course(r)'
    BY <2>1, <2>2 DEF Course, Archived
  <2>4. QED
    BY <2>1, <2>2, <2>3, QuietStep DEF Archived, Inv, TypeOK
<1>5. QED
  BY <1>2, <1>3, <1>4

LEMMA ContactBegins ==
    ASSUME Inv, NEW r \in Reqs, NEW a \in Links,
           \/ BeginCreate(r, a)
           \/ \E op \in {"relink", "edit", "archive"}, c \in Contacts : LoadContact(r, op, c, a)
    PROVE  Inv'
<1>0. None \notin Archived /\ (a # None => a \in Accounts)
  BY NoneAssumption DEF Archived, Links
<1>1. CASE BeginCreate(r, a)
  <2> DEFINE pc == IF a = None THEN "save" ELSE "check"
  <2>1. /\ req' \in [Reqs -> RequestType]
        /\ \A q \in Reqs \ {r} : req'[q] = req[q]
        /\ req'[r].pc = pc /\ req'[r].op = "create"
        /\ req'[r].a = a /\ req'[r].gone = Archived
    <3> DEFINE q == Request(pc, "create", None, a, clock, Archived)
    <3>1. req \in [Reqs -> RequestType] /\ req' = [req EXCEPT ![r] = q]
      BY <1>1 DEF BeginCreate, Inv, TypeOK
    <3>2. pc \in {"save", "check"}
      OBVIOUS
    <3> HIDE DEF pc
    <3>3. q \in RequestType /\ q.pc = pc /\ q.op = "create" /\ q.c = None /\ q.a = a /\ q.gone = Archived
      BY <3>2 DEF Request, RequestType, Archived, Links, Inv, TypeOK
    <3> HIDE DEF q
    <3>4. QED
      BY <3>1, <3>3
  <2>2. UNCHANGED <<account, contact, list, there>> /\ clock' \in Nat
    BY <1>1 DEF BeginCreate, Inv, TypeOK
  <2>3. Course(r)'
    BY <1>0, <2>1, <2>2 DEF Course, Archived
  <2>4. QED
    BY <2>1, <2>2, <2>3, QuietStep DEF Archived, Inv, TypeOK
<1>2. ASSUME NEW op \in {"relink", "edit", "archive"}, NEW c \in Contacts, LoadContact(r, op, c, a)
      PROVE  Inv'
  <2> DEFINE pc == IF a = None THEN "save" ELSE "check"
  <2>1. /\ req' \in [Reqs -> RequestType]
        /\ \A q \in Reqs \ {r} : req'[q] = req[q]
        /\ req'[r].pc = pc /\ req'[r].op = op /\ req'[r].c = c
        /\ req'[r].a = a /\ req'[r].gone = Archived
    <3> DEFINE q == Request(pc, op, c, a, 0, Archived)
    <3>1. req \in [Reqs -> RequestType] /\ req' = [req EXCEPT ![r] = q]
      BY <1>2 DEF LoadContact, Inv, TypeOK
    <3>2. pc \in {"save", "check"}
      OBVIOUS
    <3> HIDE DEF pc
    <3>3. q \in RequestType /\ q.pc = pc /\ q.op = op /\ q.c = c /\ q.a = a /\ q.gone = Archived
      BY <3>2 DEF Request, RequestType, Archived, Links, Inv, TypeOK
    <3> HIDE DEF q
    <3>4. QED
      BY <3>1, <3>3
  <2>2. UNCHANGED <<account, contact, clock, list, there>>
    BY <1>2 DEF LoadContact
  <2>3. Course(r)'
    BY <1>0, <2>1, <2>2 DEF Course, Archived
  <2>4. QED
    BY <2>1, <2>2, <2>3, QuietStep DEF Archived, Inv, TypeOK
<1>3. QED
  BY <1>1, <1>2

LEMMA ContactChecks ==
    ASSUME Inv, NEW r \in Reqs, RequireActiveAccount(r) \/ Abort(r)
    PROVE  Inv'
<1>1. UNCHANGED <<account, contact, clock, list, there>>
  BY DEF RequireActiveAccount, Abort
<1>2. CASE Finish(r)
  <2>1. /\ req' \in [Reqs -> RequestType]
        /\ \A q \in Reqs \ {r} : req'[q] = req[q]
        /\ req'[r] = Fresh
    BY <1>2, FinishFacts DEF Inv, TypeOK
  <2>2. QED
    BY <1>1, <2>1, FreshCourse, QuietStep DEF Archived, Inv, TypeOK
<1>3. CASE req[r].pc = "check" /\ account[req[r].a].state = "active" /\ Goto(r, "save")
  <2>1. /\ req' \in [Reqs -> RequestType]
        /\ \A q \in Reqs \ {r} : req'[q] = req[q]
        /\ req'[r].pc = "save" /\ req'[r].op = req[r].op /\ req'[r].c = req[r].c
        /\ req'[r].a = req[r].a /\ req'[r].gone = req[r].gone
    BY <1>3, GotoFacts DEF Inv, TypeOK
  <2>2. req[r].a \notin req[r].gone
    BY <1>3 DEF Inv, Course, Archived
  <2>3. Course(r)'
    BY <1>1, <2>1, <2>2 DEF Inv, Course, Archived
  <2>4. QED
    BY <1>1, <2>1, <2>3, QuietStep DEF Archived, Inv, TypeOK
<1>4. QED
  BY <1>2, <1>3 DEF RequireActiveAccount, Abort

LEMMA ContactSaves ==
    ASSUME Inv, NEW r \in Reqs,
           \/ \E c \in Contacts, p \in Profiles : CreateContact(r, c, p)
           \/ \E p \in Profiles : EditContact(r, p)
           \/ RelinkContact(r) \/ ArchiveContact(r)
    PROVE  Inv'
<1>1. ASSUME NEW c \in Contacts, NEW p \in Profiles, CreateContact(r, c, p) PROVE Inv'
  <2> DEFINE row == [state |-> "active", account |-> req[r].a, profile |-> p, at |-> req[r].at,
                     gone |-> req[r].gone]
  <2>1. row \in ContactType /\ row.state # "absent" /\ row.account = req[r].a /\ row.gone = req[r].gone
    BY DEF Inv, TypeOK, RequestType, ContactType, States
  <2>2. req[r].a \notin req[r].gone /\ ~Exists(c) /\ Put(c, row) /\ Finish(r)
        /\ UNCHANGED <<account, clock, list>>
    BY <1>1 DEF CreateContact, At, Inv, Course, Exists
  <2> HIDE DEF row
  <2>3. QED
    BY <2>1, <2>2, PutStep
<1>2. CASE RelinkContact(r)
  <2> DEFINE row == [Present(r) EXCEPT !.account = req[r].a, !.gone = req[r].gone]
  <2>1. SaveContact(r, "relink", row) /\ req[r].c \in Contacts /\ req[r].a \notin req[r].gone
    BY <1>2 DEF RelinkContact, SaveContact, At, Inv, Course
  <2>2. contact[req[r].c] \in ContactType /\ req[r].a \in Links /\ req[r].gone \in SUBSET Accounts
    BY <2>1 DEF Inv, TypeOK, RequestType
  <2>3. /\ row \in ContactType /\ row.at = contact[req[r].c].at
        /\ row.account = req[r].a /\ row.gone = req[r].gone
        /\ Active(req[r].c) => row.state # "absent"
    BY <2>2 DEF Present, Active, ContactType
  <2> HIDE DEF row
  <2>4. QED
    BY <2>1, <2>3, SaveContactStep
<1>3. ASSUME NEW p \in Profiles, EditContact(r, p) PROVE Inv'
  <2> DEFINE row == [Present(r) EXCEPT !.profile = p]
  <2>1. SaveContact(r, "edit", row) /\ req[r].c \in Contacts
    BY <1>3 DEF EditContact, SaveContact, At, Inv, Course
  <2>2. contact[req[r].c] \in ContactType
    BY <2>1 DEF Inv, TypeOK
  <2>3. /\ row \in ContactType /\ row.at = contact[req[r].c].at
        /\ row.account = contact[req[r].c].account /\ row.gone = contact[req[r].c].gone
        /\ Active(req[r].c) => row.state # "absent"
    BY <2>2 DEF Present, Active, ContactType
  <2> HIDE DEF row
  <2>4. QED
    BY <2>1, <2>3, SaveContactStep DEF Inv, LinkPredatesArchival
<1>4. CASE ArchiveContact(r)
  <2> DEFINE row == [Present(r) EXCEPT !.state = "archived"]
  <2>1. SaveContact(r, "archive", row) /\ req[r].c \in Contacts
    BY <1>4 DEF ArchiveContact, SaveContact, At, Inv, Course
  <2>2. contact[req[r].c] \in ContactType
    BY <2>1 DEF Inv, TypeOK
  <2>3. /\ row \in ContactType /\ row.at = contact[req[r].c].at /\ row.state # "absent"
        /\ row.account = contact[req[r].c].account /\ row.gone = contact[req[r].c].gone
    BY <2>2 DEF Present, ContactType, States
  <2> HIDE DEF row
  <2>4. QED
    BY <2>1, <2>3, SaveContactStep DEF Inv, LinkPredatesArchival
<1>5. QED
  BY <1>1, <1>2, <1>3, <1>4

LEMMA OpenStep ==
    ASSUME Inv, NEW of \in Links, Open(of)
    PROVE  Inv'
<1>1. /\ UNCHANGED <<account, contact, clock, req>>
      /\ list' = [pc |-> "reading", of |-> of, cursor |-> None, page |-> {}, before |-> {}]
      /\ there' = {c \in Contacts : Matches(contact[c], of)}
  BY DEF Open
<1>2. /\ list'.pc = "reading" /\ list'.of = of /\ list'.cursor = None
      /\ list'.page = {} /\ list'.before = {}
  BY <1>1
<1>3. TypeOK'
  BY <1>1 DEF Inv, TypeOK, ListType
<1>4. (\A r \in Reqs : Course(r)') /\ LinkPredatesArchival'
  BY <1>1 DEF Inv, Course, Archived, LinkPredatesArchival
<1>5. Listing'
  BY <1>1, <1>2 DEF Listing, ListDescends, ListIsComplete, After
<1>6. QED
  BY <1>3, <1>4, <1>5 DEF Inv

\* A page and what was shown before it.
LEMMA PageStep ==
    ASSUME Inv, NextPage
    PROVE  Inv'
<1> USE DEF Exists
<1>1. list.pc = "reading" /\ UNCHANGED <<account, contact, clock, req, there>>
  BY DEF NextPage
<1>2. /\ list \in ListType /\ there \in SUBSET Contacts /\ contact \in [Contacts -> ContactType]
      /\ list.page \in SUBSET Contacts /\ list.before \in SUBSET Contacts
      /\ \A c \in Contacts : contact[c].at \in Nat
      /\ Due \in SUBSET Contacts
  BY DEF Inv, TypeOK, ListType, ContactType, Due
<1>3. (\A r \in Reqs : Course(r)') /\ LinkPredatesArchival'
  BY <1>1 DEF Inv, Course, Archived, LinkPredatesArchival
<1>4. \A c \in there : c \in list.before \cup list.page \/ c \in Due
  BY <1>1, <1>2 DEF Inv, Listing, Due
<1>5. \A c \in list.before \cup list.page, d \in Due : contact[c].at > contact[d].at
  <2>1. CASE list.cursor = None
    BY <1>1, <2>1 DEF Inv, Listing
  <2>2. CASE list.cursor # None
    <3>1. /\ list.cursor \in list.page /\ list.cursor \in Contacts
          /\ \A c \in list.page : contact[c].at >= contact[list.cursor].at
      BY <1>1, <1>2, <2>2 DEF Inv, Listing
    <3>2. \A c \in list.before : contact[c].at > contact[list.cursor].at
      BY <3>1 DEF Inv, Listing, ListDescends
    <3>3. \A d \in Due : contact[d].at < contact[list.cursor].at
      BY <2>2 DEF Due, After
    <3>4. QED
      BY <1>2, <3>1, <3>2, <3>3
  <2>3. QED
    BY <2>1, <2>2
<1>6. ASSUME NEW page \in SUBSET Due,
             list'.page = page, list'.before = list.before \cup list.page, list'.of = list.of
      PROVE  /\ ListDescends'
             /\ \A c \in list'.page \cup list'.before : Exists(c)'
             /\ \A c \in there' : Matches(contact'[c], list'.of)
  BY <1>1, <1>5, <1>6 DEF ListDescends, Inv, Listing, Due, Matches
<1>7. CASE Cardinality(Due) > PageSize
  <2>1. PICK page \in SUBSET Due : \E last \in page :
              /\ \A c \in page : contact[c].at >= contact[last].at
              /\ \A c \in Due \ page : contact[c].at < contact[last].at
              /\ list' = [list EXCEPT !.cursor = last, !.page = page, !.before = @ \cup list.page]
    BY <1>7 DEF NextPage
  <2>2. PICK last \in page :
              /\ \A c \in page : contact[c].at >= contact[last].at
              /\ \A c \in Due \ page : contact[c].at < contact[last].at
              /\ list' = [list EXCEPT !.cursor = last, !.page = page, !.before = @ \cup list.page]
    BY <2>1
  <2>3. /\ list'.pc = "reading" /\ list'.of = list.of /\ list'.cursor = last
        /\ list'.page = page /\ list'.before = list.before \cup list.page
        /\ list' \in ListType
    BY <1>1, <1>2, <2>2 DEF ListType
  <2>4. last \in Contacts /\ last # None
    BY <1>2, NoneAssumption
  <2>5. \A c \in there' : c \in list'.before \cup list'.page \/ After(c, list.cursor)'
    BY <1>1, <1>4, <2>2, <2>3 DEF After
  <2>6. Listing'
    BY <1>1, <1>6, <2>2, <2>3, <2>4, <2>5 DEF Listing, ListIsComplete
  <2>7. QED
    BY <1>1, <1>3, <2>3, <2>6 DEF Inv, TypeOK
<1>8. CASE ~(Cardinality(Due) > PageSize)
  <2>1. list' = [list EXCEPT !.pc = "read", !.page = Due, !.before = @ \cup list.page]
    BY <1>8 DEF NextPage
  <2>2. /\ list'.pc = "read" /\ list'.of = list.of
        /\ list'.page = Due /\ list'.before = list.before \cup list.page
        /\ list' \in ListType
    BY <1>2, <2>1 DEF ListType
  <2>3. Listing'
    BY <1>1, <1>4, <1>6, <2>2 DEF Listing, ListIsComplete
  <2>4. QED
    BY <1>1, <1>3, <2>2, <2>3 DEF Inv, TypeOK
<1>9. QED
  BY <1>7, <1>8

LEMMA NextInv == Inv /\ [Next]_vars => Inv'
<1> SUFFICES ASSUME Inv, [Next]_vars PROVE Inv'
  OBVIOUS
<1>1. CASE UNCHANGED vars
  BY <1>1 DEF vars, Inv, TypeOK, Course, Archived, LinkPredatesArchival, Listing, ListDescends,
              ListIsComplete, Exists, After
<1>2. CASE Next
  <2>1. ASSUME NEW r \in Reqs,
               \/ \E a \in Links : BeginCreate(r, a) \/ \E c \in Contacts : LoadContact(r, "relink", c, a)
               \/ \E op \in {"edit", "archive"}, c \in Contacts : LoadContact(r, op, c, None)
        PROVE  Inv'
    BY <2>1, ContactBegins DEF Links
  <2>2. QED
    BY <1>2, <2>1, CreateAccountStep, AccountSteps, ContactChecks, ContactSaves, OpenStep, PageStep
       DEF Next
<1>3. QED
  BY <1>1, <1>2

-----------------------------------------------------------------------------

THEOREM InvHolds == Spec => []Inv
  BY InitInv, NextInv, PTL DEF Spec

\* The type of the state.
THEOREM TypeCorrect == Spec => []TypeOK
<1>1. Inv => TypeOK
  BY DEF Inv
<1>2. QED
  BY <1>1, InvHolds, PTL

\* _require_active_account lets no request link to an account archived before it
\* began, because an account does not come back from the archive.
THEOREM LinkPredatesArchivalSafe == Spec => []LinkPredatesArchival
<1>1. Inv => LinkPredatesArchival
  BY DEF Inv
<1>2. QED
  BY <1>1, InvHolds, PTL

\* The keyset pages of list_contacts show every row that stays, whatever else
\* happens between two of them, the archival of the cursor's row included.
THEOREM ListIsCompleteSafe == Spec => []ListIsComplete
<1>1. Inv => ListIsComplete
  BY DEF Inv, Listing
<1>2. QED
  BY <1>1, InvHolds, PTL

\* Their rows come from younger to older, none of them twice.
THEOREM ListDescendsSafe == Spec => []ListDescends
<1>1. Inv => ListDescends
  BY DEF Inv, Listing
<1>2. QED
  BY <1>1, InvHolds, PTL

\* No statement writes to an archived row.
THEOREM ArchivedStaysSafe == Spec => ArchivedStays
<1> DEFINE Stays == /\ \A c \in Contacts : contact[c].state = "archived" => contact'[c] = contact[c]
                    /\ \A a \in Accounts : account[a].state = "archived" => account'[a] = account[a]
<1>1. ASSUME Inv, Next PROVE Stays
  <2>1. \/ UNCHANGED <<account, contact>>
        \/ \E a \in Accounts, p \in Profiles : CreateAccount(a, p)
        \/ \E r \in Reqs, op \in {"edit_account", "archive_account"} : \E row : SaveAccount(r, op, row)
        \/ \E r \in Reqs, c \in Contacts, p \in Profiles : CreateContact(r, c, p)
        \/ \E r \in Reqs, op \in {"relink", "edit", "archive"} : \E row : SaveContact(r, op, row)
    BY <1>1 DEF Next, LoadAccount, BeginCreate, LoadContact, RequireActiveAccount, Abort, Open,
                NextPage, UpdateAccount, ArchiveAccount, RelinkContact, EditContact, ArchiveContact
  <2>2. ASSUME NEW a \in Accounts, NEW p \in Profiles, CreateAccount(a, p) PROVE Stays
    BY <1>1, <2>2 DEF CreateAccount, Inv, TypeOK
  <2>3. ASSUME NEW r \in Reqs, NEW op, NEW row, SaveAccount(r, op, row) PROVE Stays
    BY <1>1, <2>3 DEF SaveAccount, Inv, TypeOK
  <2>4. ASSUME NEW r \in Reqs, NEW c \in Contacts, NEW p \in Profiles, CreateContact(r, c, p)
        PROVE  Stays
    BY <1>1, <2>4 DEF CreateContact, Put, Inv, TypeOK
  <2>5. ASSUME NEW r \in Reqs, NEW op, NEW row, SaveContact(r, op, row) PROVE Stays
    BY <1>1, <2>5 DEF SaveContact, Put, Active, Inv, TypeOK
  <2>6. QED
    BY <2>1, <2>2, <2>3, <2>4, <2>5
<1>2. Inv /\ [Next]_vars => [Stays]_vars
  BY <1>1
<1>3. QED
  BY <1>2, InvHolds, PTL DEF Spec, ArchivedStays
=============================================================================
