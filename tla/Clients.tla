------------------------------- MODULE Clients -------------------------------
(***************************************************************************)
(* The clients of the firm, who belongs to whom, their contacts, which of  *)
(* them receives what, and the import of a file of clients                 *)
(* (worker/business.ts).                                                   *)
(*                                                                         *)
(* A client is the position of its row, 0 is none.  Every contact has a    *)
(* telephone number, so that it may be without an email address.           *)
(***************************************************************************)
EXTENDS Naturals, FiniteSets, Sequences

CONSTANTS
  ClientCodes,    (* the codes staff give clients                          *)
  Names,          (* legal names                                           *)
  Emails,
  Roles,          (* of contacts: some of MD_GM, CFO_FINANCE_DIRECTOR,     *)
                  (* CHIEF_ACCOUNTANT_LIAISON and OTHER                    *)
  Purposes,       (* some of those the code routes documents for           *)
  Files,          (* sequences of rows that may be imported                *)
  BatchSize,      (* CLIENT_IMPORT_APPLY_BATCH_SIZE, 40 in the code        *)
  MaxClients, MaxContacts   (* bounds                                      *)

ASSUME ClientsAssumption ==
  /\ BatchSize \in Nat \ {0} /\ MaxClients \in Nat /\ MaxContacts \in Nat

VARIABLES
  clients,        (* rows of clients                                       *)
  contacts,       (* rows of contacts                                      *)
  routes,         (* contact_routes                                        *)
  affiliations,   (* client_affiliations                                   *)
  runs,           (* client_import_runs with their client_import_row_map   *)
  engagements,    (* the engagements leads were converted to               *)
  profiles        (* actor_profiles                                        *)

directory == <<clients, contacts, routes, affiliations>>
clientVars == <<directory, runs, engagements, profiles>>

----
NoClient == 0
NoEmail == "no email"
ClientKinds == {"HOLDING", "SUBSIDIARY", "STANDALONE"}

NoRef == "no reference"
FileRows == [ref : STRING, parent : STRING, code : STRING, name : Names, kind : ClientKinds,
             email : Emails \cup {NoEmail}, role : Roles, purposes : SUBSET Purposes]

(* The contact of an inquiry has no particular role. *)
ASSUME RowsAssumption ==
  /\ ClientCodes \subseteq STRING /\ Files \subseteq Seq(FileRows) /\ "OTHER" \in Roles

(* The role whose contact is the first to receive a document of a purpose,  *)
(* and the purposes of a role.                                              *)
RoleOf(purpose) ==
  CASE purpose \in {"PROPOSAL", "EL", "FINAL_REPORT", "HOLDING_LETTER"} -> "MD_GM"
    [] purpose \in {"INVOICE", "RECEIPT"} -> "CFO_FINANCE_DIRECTOR"
    [] OTHER -> "CHIEF_ACCOUNTANT_LIAISON"
PurposesOf(role) == {purpose \in Purposes : RoleOf(purpose) = role}

ActiveClient(c) == c \in DOMAIN clients /\ clients[c].active
ActiveContact(k) == k \in DOMAIN contacts /\ contacts[k].active
UsedCodes == {clients[c].code : c \in DOMAIN clients}

(* A client and those it is under: the walk ends after as many steps as     *)
(* there are clients.                                                       *)
Above(c) ==
  LET up[n \in 0..Len(clients)] ==
        IF n = 0 THEN c
        ELSE IF up[n - 1] = NoClient THEN NoClient ELSE clients[up[n - 1]].parent
  IN {up[n] : n \in 0..Len(clients)} \ {NoClient}

Client(code, name, kind, parent) ==
  [code |-> code, name |-> name, kind |-> kind, parent |-> parent, active |-> TRUE]
Contact(c, email, role, primary) ==
  [client |-> c, email |-> email, role |-> role, primary |-> primary, active |-> TRUE]
PrimaryRoutes(c, k, purposes) ==
  {[client |-> c, purpose |-> purpose, contact |-> k, primary |-> TRUE] : purpose \in purposes}

(* A client comes with its first contact, who receives what the role does.  *)
Registered(client, email, role) ==
  LET c == Len(clients) + 1
      k == Len(contacts) + 1
  IN /\ c <= MaxClients /\ k <= MaxContacts
     /\ clients' = Append(clients, client)
     /\ contacts' = Append(contacts, Contact(c, email, role, TRUE))
     /\ routes' = routes \cup PrimaryRoutes(c, k, PurposesOf(role))

----
ClientCreate(code, name, kind, parent, email, role) ==
  /\ code \notin UsedCodes
  /\ (kind = "SUBSIDIARY") <=> (parent # NoClient)
  /\ parent # NoClient => ActiveClient(parent)
  /\ Registered(Client(code, name, kind, parent), email, role)
  /\ UNCHANGED <<affiliations, runs, engagements, profiles>>

ClientUpdate(c, name, kind, parent) ==
  /\ ActiveClient(c)
  /\ (kind = "SUBSIDIARY") <=> (parent # NoClient)
  /\ parent # NoClient => ActiveClient(parent) /\ c \notin Above(parent)
  /\ clients' = [clients EXCEPT ![c].name = name, ![c].kind = kind, ![c].parent = parent]
  /\ UNCHANGED <<contacts, routes, affiliations, runs, engagements, profiles>>

(* Mutant: an engagement that has no proposal yet holds nobody.             *)
UnencumberedBeforeProposal(c) ==
  /\ \A d \in DOMAIN clients : clients[d].parent = c => ~clients[d].active
  /\ \A e \in DOMAIN engagements :
       engagements[e].client = c => engagements[e].phase \in {"LEAD_INGESTION", "ARCHIVED_READ_ONLY"}
  /\ \A a \in DOMAIN profiles :
       profiles[a].persona = "CLIENT" /\ profiles[a].active => contacts[profiles[a].of].client # c

(* Nothing that is alive depends on the client any more. *)
Unencumbered(c) ==
  /\ \A d \in DOMAIN clients : clients[d].parent = c => ~clients[d].active
  /\ \A e \in DOMAIN engagements :
       engagements[e].client = c => engagements[e].phase = "ARCHIVED_READ_ONLY"
  /\ \A a \in DOMAIN profiles :
       profiles[a].persona = "CLIENT" /\ profiles[a].active => contacts[profiles[a].of].client # c

ClientDeactivate(c) ==
  /\ ActiveClient(c)
  /\ Unencumbered(c)
  /\ clients' = [clients EXCEPT ![c].active = FALSE]
  /\ UNCHANGED <<contacts, routes, affiliations, runs, engagements, profiles>>

AffiliationAdd(c, d) ==
  /\ ActiveClient(c) /\ ActiveClient(d) /\ c # d
  /\ <<c, d>> \notin affiliations
  /\ affiliations' = affiliations \cup {<<c, d>>}
  /\ UNCHANGED <<clients, contacts, routes, runs, engagements, profiles>>

----
(* Who receives what. *)
Primaries(c, purpose) ==
  {r \in routes : r.client = c /\ r.purpose = purpose /\ r.primary}

(* A further contact takes over no route that has its first recipient. *)
ContactCreate(c, email, role) ==
  /\ ActiveClient(c)
  /\ Len(contacts) < MaxContacts
  /\ contacts' = Append(contacts, Contact(c, email, role, FALSE))
  /\ routes' = routes \cup PrimaryRoutes(c, Len(contacts) + 1,
                              {purpose \in PurposesOf(role) : Primaries(c, purpose) = {}})
  /\ UNCHANGED <<clients, affiliations, runs, engagements, profiles>>

(* Whoever is the first recipient of a purpose stays in its role. *)
RoleFits(k, role) ==
  \A r \in routes : r.contact = k /\ r.primary => r.purpose \in PurposesOf(role)

(* The first contact of a client steps back for the next one; a contact     *)
(* that leaves is first no more, but keeps its routes.                      *)
ContactUpdate(k, email, role, primary, active) ==
  /\ ActiveContact(k)
  /\ primary => active
  /\ RoleFits(k, role)
  /\ contacts' = [j \in DOMAIN contacts |->
       IF j = k THEN [contacts[k] EXCEPT !.email = email, !.role = role,
                                         !.primary = primary, !.active = active]
       ELSE IF primary /\ contacts[j].client = contacts[k].client /\ contacts[j].active
       THEN [contacts[j] EXCEPT !.primary = FALSE]
       ELSE contacts[j]]
  /\ UNCHANGED <<clients, routes, affiliations, runs, engagements, profiles>>

(* The recipient before, if there is one, is kept as an alternate. *)
ContactRoute(k, purpose, primary) ==
  LET c == contacts[k].client
      own == {r \in routes : r.purpose = purpose /\ r.contact = k}
      replaced == IF primary THEN Primaries(c, purpose) \ own ELSE {}
  IN /\ ActiveContact(k)
     /\ primary => contacts[k].role = RoleOf(purpose)
     /\ routes' = (routes \ (own \cup replaced))
          \cup {[r EXCEPT !.primary = FALSE] : r \in replaced}
          \cup {[client |-> c, purpose |-> purpose, contact |-> k, primary |-> primary]}
     /\ UNCHANGED <<clients, contacts, affiliations, runs, engagements, profiles>>

----
(* A file of clients.  A row names its parent by the parent's reference;    *)
(* purposes are those the row gives, or those of its role.                  *)
Rows(f) == DOMAIN f
ParentRow(f, i) ==
  IF \E j \in Rows(f) : f[j].ref = f[i].parent THEN CHOOSE j \in Rows(f) : f[j].ref = f[i].parent
  ELSE NoClient

(* The rows from the top of the hierarchy down to a row: longer than the    *)
(* file when the row is in a cycle or under one.                            *)
PathTo(f, i) ==
  LET up[n \in 0..Len(f)] ==
        IF n = 0 THEN <<i>>
        ELSE IF ParentRow(f, Head(up[n - 1])) = NoClient THEN up[n - 1]
        ELSE <<ParentRow(f, Head(up[n - 1]))>> \o up[n - 1]
  IN up[Len(f)]

RowFits(f, i) ==
  /\ f[i].ref # NoRef
  /\ \A j \in Rows(f) \ {i} : f[j].ref # f[i].ref /\ f[j].code # f[i].code
  /\ (f[i].kind = "SUBSIDIARY") <=> (f[i].parent # NoRef)
  /\ f[i].parent # NoRef => ParentRow(f, i) # NoClient
  /\ Len(PathTo(f, i)) <= Len(f)

(* Parents come before their children, a generation after the other, and    *)
(* the rows of a generation in the order of their parents and of the file.  *)
Earlier(f, i, j) ==
  LET s == PathTo(f, i)
      t == PathTo(f, j)
  IN \/ Len(s) < Len(t)
     \/ /\ Len(s) = Len(t)
        /\ \E n \in DOMAIN s : s[n] < t[n] /\ \A l \in 1..(n - 1) : s[l] = t[l]
ImportOrder(f) ==
  CHOOSE order \in [Rows(f) -> Rows(f)] : \A n, m \in Rows(f) : n < m => Earlier(f, order[n], order[m])

(* A file is judged once, whatever the outcome. *)
ImportValidate(f) ==
  /\ \A r \in DOMAIN runs : runs[r].file # f
  /\ LET fits == \A i \in Rows(f) : RowFits(f, i) /\ f[i].code \notin UsedCodes
     IN runs' = Append(runs, [file |-> f, mapped |-> <<>>,
                              status |-> IF fits THEN "VALIDATED" ELSE "REJECTED"])
  /\ UNCHANGED <<directory, engagements, profiles>>

(* The next rows in that order; mapped[n] is what the n-th row became.      *)
Batch(r) ==
  LET done == Len(runs[r].mapped)
      order == ImportOrder(runs[r].file)
  IN SubSeq(order, done + 1, IF done + BatchSize < Len(order) THEN done + BatchSize ELSE Len(order))

RowPurposes(row) == IF row.purposes = {} THEN PurposesOf(row.role) ELSE row.purposes

ImportApply(r) ==
  LET f == runs[r].file
      order == ImportOrder(f)
      batch == Batch(r)
      row(n) == f[batch[n]]
      c(n) == Len(clients) + n
      k(n) == Len(contacts) + n
      given == runs[r].mapped \o [n \in DOMAIN batch |-> [client |-> c(n), contact |-> k(n)]]
      of(i) == given[CHOOSE n \in DOMAIN given : order[n] = i].client
      parent(i) == IF f[i].parent = NoRef THEN NoClient ELSE of(ParentRow(f, i))
  IN /\ runs[r].status = "VALIDATED"
     /\ c(Len(batch)) <= MaxClients /\ k(Len(batch)) <= MaxContacts
     /\ \A n \in DOMAIN batch :
          /\ row(n).code \notin UsedCodes
          /\ parent(batch[n]) \in DOMAIN clients => clients[parent(batch[n])].active
     /\ clients' = clients \o [n \in DOMAIN batch |->
          Client(row(n).code, row(n).name, row(n).kind, parent(batch[n]))]
     /\ contacts' = contacts \o [n \in DOMAIN batch |->
          Contact(c(n), row(n).email, row(n).role, TRUE)]
     /\ routes' = routes \cup UNION
          {PrimaryRoutes(c(n), k(n), RowPurposes(row(n))) : n \in DOMAIN batch}
     /\ affiliations' = affiliations \cup
          {<<c(n), parent(batch[n])>> : n \in {m \in DOMAIN batch : row(m).parent # NoRef}}
     /\ runs' = [runs EXCEPT ![r].mapped = given,
                             ![r].status = IF Len(given) = Len(f) THEN "APPLIED" ELSE "VALIDATED"]
     /\ UNCHANGED <<engagements, profiles>>

----
ClientsInit ==
  /\ clients = <<>> /\ contacts = <<>> /\ routes = {} /\ affiliations = {}
  /\ runs = <<>> /\ engagements = <<>>

ClientNext ==
  \/ \E name \in Names, kind \in ClientKinds, parent \in {NoClient} \cup DOMAIN clients :
       \/ \E code \in ClientCodes, role \in Roles : ClientCreate(code, name, kind, parent, NoEmail, role)
       \/ \E c \in DOMAIN clients : ClientUpdate(c, name, kind, parent)
  \/ \E c, d \in DOMAIN clients : AffiliationAdd(c, d)
  \/ \E c \in DOMAIN clients : ClientDeactivate(c)

ImportNext ==
  \/ \E f \in Files : ImportValidate(f)
  \/ \E r \in DOMAIN runs : ImportApply(r)

ContactNext ==
  \/ \E c \in DOMAIN clients, role \in Roles, email \in Emails \cup {NoEmail} :
       ContactCreate(c, email, role)
  \/ \E k \in DOMAIN contacts, role \in Roles, email \in Emails \cup {NoEmail},
        primary \in BOOLEAN, active \in BOOLEAN : ContactUpdate(k, email, role, primary, active)
  \/ \E k \in DOMAIN contacts, purpose \in Purposes, primary \in BOOLEAN :
       ContactRoute(k, purpose, primary)

----
ClientsTypeOK ==
  /\ \A c \in DOMAIN clients :
       /\ clients[c].code \in STRING /\ clients[c].name \in Names
       /\ clients[c].kind \in ClientKinds /\ clients[c].active \in BOOLEAN
       /\ clients[c].parent \in {NoClient} \cup DOMAIN clients
  /\ \A k \in DOMAIN contacts :
       /\ contacts[k].client \in DOMAIN clients /\ contacts[k].role \in Roles
       /\ contacts[k].email \in Emails \cup {NoEmail}
       /\ contacts[k].primary \in BOOLEAN /\ contacts[k].active \in BOOLEAN
  /\ \A r \in routes :
       r.contact \in DOMAIN contacts /\ r.purpose \in Purposes /\ contacts[r.contact].client = r.client
  /\ affiliations \subseteq (DOMAIN clients) \X (DOMAIN clients)
  /\ \A r \in DOMAIN runs :
       runs[r].file \in Files /\ runs[r].status \in {"VALIDATED", "APPLIED", "REJECTED"}

(* Whoever moves, joins, leaves or is imported in between, the clients form *)
(* a forest: nobody is above itself, exactly a subsidiary is under another, *)
(* and an active client is under an active one.                             *)
ClientsFormAForest ==
  \A c \in DOMAIN clients :
    /\ clients[c].parent # NoClient => c \notin Above(clients[c].parent)
    /\ (clients[c].kind = "SUBSIDIARY") <=> (clients[c].parent # NoClient)
    /\ clients[c].active /\ clients[c].parent # NoClient => clients[clients[c].parent].active

(* A client has one first contact at most, and a purpose one first          *)
(* recipient, who is in the role of it unless the file that brought the     *)
(* contact asked for something else.                                        *)
AsFiled(r) ==
  \E run \in DOMAIN runs : \E n \in DOMAIN runs[run].mapped :
    /\ runs[run].mapped[n].contact = r.contact
    /\ r.purpose \in runs[run].file[ImportOrder(runs[run].file)[n]].purposes
FirstsAreUnique ==
  /\ \A j, k \in DOMAIN contacts :
       contacts[j].primary /\ contacts[k].primary /\ contacts[j].client = contacts[k].client => j = k
  /\ \A r, s \in routes :
       r.primary /\ s.primary /\ r.client = s.client /\ r.purpose = s.purpose => r = s
  /\ \A r \in routes : r.primary => contacts[r.contact].role = RoleOf(r.purpose) \/ AsFiled(r)

(* A row of an imported file becomes one client, in any number of batches   *)
(* and whatever else is entered between them, and is affiliated with the    *)
(* client its parent's row became; the run is applied when every row is.    *)
ImportsMapOnce ==
  \A r \in DOMAIN runs :
    LET f == runs[r].file
        mapped == runs[r].mapped
        order == ImportOrder(f)
        clientOf(i) == mapped[CHOOSE n \in DOMAIN mapped : order[n] = i].client
    IN /\ (runs[r].status = "REJECTED") => mapped = <<>>
       /\ (runs[r].status = "VALIDATED" /\ f # <<>>) => Len(mapped) < Len(f)
       /\ (runs[r].status = "APPLIED") => Len(mapped) = Len(f)
       /\ \A n \in DOMAIN mapped :
            /\ clients[mapped[n].client].code = f[order[n]].code
            /\ f[order[n]].parent # NoRef =>
                 <<mapped[n].client, clientOf(ParentRow(f, order[n]))>> \in affiliations
       /\ \A s \in DOMAIN runs, n \in DOMAIN mapped : \A m \in DOMAIN runs[s].mapped :
            mapped[n].client = runs[s].mapped[m].client => r = s /\ n = m
================================================================================
