----------------------------- MODULE Projects -----------------------------
(***************************************************************************)
(* The companion row of one Catalogue project (services/projects.py) and   *)
(* the API requests that provision, refresh, edit, hide and use it.        *)
(*                                                                         *)
(* The Catalogue is another service: it owns the project's name and says   *)
(* who may see it, and its answer is stale as soon as it is given.  Every  *)
(* request has a database session of its own; a commit writes only the     *)
(* columns whose value differs from what the session has read.  Rows of    *)
(* different projects never interact, so one is enough.                    *)
(***************************************************************************)
EXTENDS Naturals

CONSTANTS
    User,           \* the callers
    Member,         \* those the Catalogue shows the project to, at first
    Manager,        \* those it lets create, rename and delete it
    Name,           \* project names
    NoName,         \* no name: no project, or a 404
    Description,    \* values of the editor-local description
    NoDescription,  \* its null
    Request,        \* the API requests of one behaviour
    Orders,         \* what a request may ask for
    Events,         \* what may happen outside the code
    MaxEvents       \* bound: how often

Kinds == {"read", "use", "patch", "delete", "create"}
EventKinds == {"rename", "delete", "revoke", "lost"}
Order == [kind : Kinds, user : User, fields : SUBSET {"name", "description"},
          name : Name, description : Description]

ASSUME UserAssumption == Member \subseteq User /\ Manager \subseteq User
ASSUME NameAssumption == NoName \notin Name /\ NoDescription \in Description
ASSUME OrdersAssumption == Orders \subseteq Order
ASSUME EventsAssumption == Events \subseteq EventKinds /\ MaxEvents \in Nat

Row == [present : BOOLEAN, name : Name \cup {NoName}, hidden : BOOLEAN,
        description : Description]
NoRow == [present |-> FALSE, name |-> NoName, hidden |-> FALSE,
          description |-> NoDescription]

Running == {"asked", "looked", "saved", "granted", "renamed", "dropped"}
Answered == {"done", "notfound", "gone", "refused", "error", "lost"}

VARIABLES
    cat,    \* the Catalogue's project: whether it is live, its name, its members
    row,    \* table projects: the companion row
    req,    \* the API requests
    events  \* outside events so far

vars == <<cat, row, req, events>>

(* The project is in the Catalogue already, with or without a row that     *)
(* earlier requests left, or a request is to create it.                    *)
Init ==
    /\ cat \in [live : BOOLEAN, name : Name \cup {NoName}, members : {Member}]
    /\ cat.live <=> cat.name # NoName
    /\ row \in {NoRow} \cup
         IF cat.live THEN {w \in Row : w.present /\ w.name # NoName} ELSE {}
    /\ req \in [Request -> [ask : Orders, pc : {"idle"}, seen : {NoName}, copy : {NoRow}]]
    /\ events = 0

Asks(r, kind) == req[r].ask.kind = kind
At(r, place) == req[r].pc = place
Move(r, place) == req' = [req EXCEPT ![r].pc = place]
Visible(u) == cat.live /\ u \in cat.members
Manages(u) == Visible(u) /\ u \in Manager

(* What an UPDATE leaves in a column: `new` unless the session believes it *)
(* is there already.                                                       *)
Written(column, old, new) == IF new = old THEN column ELSE new

-----------------------------------------------------------------------------
(* require_project_access.  GET /projects/{id} with the caller's token.    *)
Ask(r) ==
    /\ At(r, "idle") /\ ~Asks(r, "create")
    /\ req' = [req EXCEPT
         ![r].pc = "asked",
         ![r].seen = IF Visible(req[r].ask.user) THEN cat.name ELSE NoName]
    /\ UNCHANGED <<cat, row, events>>

(* Mutant: a 404 is passed on and the local row left alone.                *)
Deny_LeavesRow(r) ==
    /\ At(r, "asked") /\ req[r].seen = NoName
    /\ Move(r, "notfound")
    /\ UNCHANGED <<cat, row, events>>

(* A 404 hides the local row: soft_delete_local, then NotFoundError.       *)
Deny(r) ==
    /\ At(r, "asked") /\ req[r].seen = NoName
    /\ row' = [row EXCEPT !.hidden = row.present]
    /\ Move(r, "notfound")
    /\ UNCHANGED <<cat, events>>

(* Mutant: the row is saved without looking at the answer.                 *)
Look_Anyway(r) ==
    /\ At(r, "asked")
    /\ req' = [req EXCEPT ![r].pc = "looked", ![r].copy = row]
    /\ UNCHANGED <<cat, row, events>>

(* upsert_companion: look for the row ...                                  *)
Look(r) ==
    /\ At(r, "asked") /\ req[r].seen # NoName
    /\ req' = [req EXCEPT ![r].pc = "looked", ![r].copy = row]
    /\ UNCHANGED <<cat, row, events>>

(* ... insert it if it was not there ...                                   *)
Insert(r) ==
    /\ At(r, "looked") /\ ~req[r].copy.present
    /\ ~row.present
    /\ row' = [NoRow EXCEPT !.present = TRUE, !.name = req[r].seen]
    /\ Move(r, "saved")
    /\ UNCHANGED <<cat, events>>

(* ... which the primary key refuses when another request was faster ...   *)
InsertClash(r) ==
    /\ At(r, "looked") /\ ~req[r].copy.present
    /\ row.present
    /\ Move(r, "error")
    /\ UNCHANGED <<cat, row, events>>

(* Mutant: every column is written back as it was read.                    *)
Update_AllColumns(r) ==
    /\ At(r, "looked") /\ req[r].copy.present
    /\ row' = [req[r].copy EXCEPT !.name = req[r].seen, !.hidden = FALSE]
    /\ Move(r, "saved")
    /\ UNCHANGED <<cat, events>>

(* ... and refresh or undelete it if it was.                               *)
Update(r) ==
    /\ At(r, "looked") /\ req[r].copy.present
    /\ row' = [row EXCEPT
         !.name = Written(@, req[r].copy.name, req[r].seen),
         !.hidden = Written(@, req[r].copy.hidden, FALSE)]
    /\ Move(r, "saved")
    /\ UNCHANGED <<cat, events>>

(* The row is read again after the commit; a plain access is answered.     *)
Refresh(r) ==
    /\ At(r, "saved")
    /\ req' = [req EXCEPT ![r].pc = IF Asks(r, "read") THEN "done" ELSE "granted",
                          ![r].copy = row]
    /\ UNCHANGED <<cat, row, events>>

-----------------------------------------------------------------------------
(* A service of the same request fetches the row again: the guard has      *)
(* dropped its own copy by then, so this reads the database.               *)
Use(r) ==
    /\ At(r, "granted") /\ Asks(r, "use")
    /\ Move(r, IF row.present /\ ~row.hidden THEN "done" ELSE "gone")
    /\ UNCHANGED <<cat, row, events>>

-----------------------------------------------------------------------------
(* PATCH /projects/{id}: the name goes to the Catalogue first, unless it   *)
(* is the one the local row has.                                           *)
Renames(r) ==
    /\ "name" \in req[r].ask.fields
    /\ req[r].ask.name # req[r].copy.name

PatchRename(r) ==
    /\ At(r, "granted") /\ Asks(r, "patch") /\ Renames(r)
    /\ Manages(req[r].ask.user)
    /\ cat' = [cat EXCEPT !.name = req[r].ask.name]
    /\ Move(r, "renamed")
    /\ UNCHANGED <<row, events>>

(* The Catalogue refuses a rename or a deletion.                           *)
Refuse(r) ==
    /\ At(r, "granted")
    /\ Asks(r, "delete") \/ (Asks(r, "patch") /\ Renames(r))
    /\ ~Manages(req[r].ask.user)
    /\ Move(r, "refused")
    /\ UNCHANGED <<cat, row, events>>

Described(r, column) ==
    IF "description" \in req[r].ask.fields
    THEN Written(column, req[r].copy.description, req[r].ask.description)
    ELSE column

(* Mutant: the whole row is written as the session has it.                 *)
PatchCommit_AllColumns(r) ==
    /\ Asks(r, "patch")
    /\ At(r, "renamed") \/ (At(r, "granted") /\ ~Renames(r))
    /\ row' = [req[r].copy EXCEPT
         !.name = IF At(r, "renamed") THEN req[r].ask.name ELSE @,
         !.description = Described(r, @)]
    /\ Move(r, "done")
    /\ UNCHANGED <<cat, events>>

PatchCommit(r) ==
    /\ Asks(r, "patch")
    /\ At(r, "renamed") \/ (At(r, "granted") /\ ~Renames(r))
    /\ row' = [row EXCEPT
         !.name = IF At(r, "renamed")
                  THEN Written(@, req[r].copy.name, req[r].ask.name) ELSE @,
         !.description = Described(r, @)]
    /\ Move(r, "done")
    /\ UNCHANGED <<cat, events>>

-----------------------------------------------------------------------------
(* DELETE /projects/{id}: the Catalogue first, then the local row.         *)
DeleteInCatalogue(r) ==
    /\ At(r, "granted") /\ Asks(r, "delete")
    /\ Manages(req[r].ask.user)
    /\ cat' = [cat EXCEPT !.live = FALSE]
    /\ Move(r, "dropped")
    /\ UNCHANGED <<row, events>>

DeleteLocal(r) ==
    /\ At(r, "dropped")
    /\ row' = [row EXCEPT !.hidden = row.present]
    /\ Move(r, "done")
    /\ UNCHANGED <<cat, events>>

-----------------------------------------------------------------------------
(* POST /projects: in the Catalogue first; the row as for any access, then *)
(* its description in a commit of its own.                                 *)
CreateInCatalogue(r) ==
    /\ At(r, "idle") /\ Asks(r, "create")
    /\ cat.name = NoName /\ req[r].ask.user \in cat.members \cap Manager
    /\ cat' = [cat EXCEPT !.live = TRUE, !.name = req[r].ask.name]
    /\ req' = [req EXCEPT ![r].pc = "asked", ![r].seen = req[r].ask.name]
    /\ UNCHANGED <<row, events>>

CreateRefused(r) ==
    /\ At(r, "idle") /\ Asks(r, "create")
    /\ cat.name # NoName \/ req[r].ask.user \notin cat.members \cap Manager
    /\ Move(r, "refused")
    /\ UNCHANGED <<cat, row, events>>

CreateCommit(r) ==
    /\ At(r, "granted") /\ Asks(r, "create")
    /\ row' = [row EXCEPT !.description =
         IF req[r].ask.description # NoDescription THEN Described(r, @) ELSE @]
    /\ Move(r, "done")
    /\ UNCHANGED <<cat, events>>

-----------------------------------------------------------------------------
(* Outside the code: other tools of the platform change the project, and a *)
(* request dies (its process, its client or its call of the Catalogue).    *)
Event(kind) ==
    /\ kind \in Events /\ events < MaxEvents
    /\ events' = events + 1

CatalogueRename(n) ==
    /\ Event("rename")
    /\ cat.live /\ n # cat.name
    /\ cat' = [cat EXCEPT !.name = n]
    /\ UNCHANGED <<row, req>>

CatalogueDelete ==
    /\ Event("delete")
    /\ cat.live
    /\ cat' = [cat EXCEPT !.live = FALSE]
    /\ UNCHANGED <<row, req>>

CatalogueRevoke(u) ==
    /\ Event("revoke")
    /\ u \in cat.members
    /\ cat' = [cat EXCEPT !.members = @ \ {u}]
    /\ UNCHANGED <<row, req>>

RequestLost(r) ==
    /\ Event("lost")
    /\ req[r].pc \in Running
    /\ Move(r, "lost")
    /\ UNCHANGED <<cat, row>>

-----------------------------------------------------------------------------
Access(r) ==
    Deny(r) \/ Look(r) \/ Insert(r) \/ InsertClash(r) \/ Update(r) \/ Refresh(r)

Serve(r) ==
    \/ Use(r) \/ PatchRename(r) \/ PatchCommit(r) \/ Refuse(r)
    \/ DeleteInCatalogue(r) \/ DeleteLocal(r) \/ CreateCommit(r)

Outside ==
    \/ \E n \in Name : CatalogueRename(n)
    \/ CatalogueDelete
    \/ \E u \in User : CatalogueRevoke(u)
    \/ \E r \in Request : RequestLost(r)

Terminating == (\A r \in Request : req[r].pc \in Answered) /\ UNCHANGED vars

Next ==
    \/ \E r \in Request : \/ Ask(r) \/ CreateInCatalogue(r) \/ CreateRefused(r)
                          \/ Access(r) \/ Serve(r)
    \/ Outside
    \/ Terminating

(* A request the API has begun goes on; users need not send any.           *)
Fairness == \A r \in Request : WF_vars(Access(r) \/ Serve(r))

Spec == Init /\ [][Next]_vars
FairSpec == Spec /\ Fairness

-----------------------------------------------------------------------------
(* Every variable has its type, and a row that exists has a name.          *)
TypeOK ==
    /\ cat \in [live : BOOLEAN, name : Name \cup {NoName}, members : SUBSET User]
    /\ row \in Row /\ (row.present => row.name # NoName)
    /\ req \in [Request -> [ask : Order, pc : {"idle"} \cup Running \cup Answered,
                            seen : Name \cup {NoName}, copy : Row]]
    /\ events \in Nat

Describers == {r \in Request : /\ req[r].ask.kind \in {"patch", "create"}
                               /\ "description" \in req[r].ask.fields}

(* A description that one request set is not undone by the accesses that   *)
(* refresh, hide and undelete the row at the same time.                    *)
DescriptionIsKept ==
    \A r \in Describers :
        Describers = {r} /\ At(r, "done") => row.description = req[r].ask.description

(* The Catalogue had the project and has it no longer.                     *)
Deleted == ~cat.live /\ cat.name # NoName

(* Requests that were told the project is there and have not saved it yet. *)
Holders == {r \in Request : req[r].pc \in {"asked", "looked"} /\ req[r].seen # NoName}

(* Requests about to save another name than the Catalogue has by now.      *)
Outdated == {r \in Request : \/ r \in Holders /\ req[r].seen # cat.name
                             \/ At(r, "renamed") /\ req[r].ask.name # cat.name}

(* Once a row is right only an answer that is out of date can spoil it.    *)
(* The row of a deleted project stays hidden when no access that was told  *)
(* otherwise is still running, and a row with the Catalogue's name keeps   *)
(* up with it when no request holds another: no edit in progress writes    *)
(* back what it read before.                                               *)
OnlyStaleAnswersSpoil ==
    [][/\ Deleted /\ Holders = {} /\ row.hidden => row'.hidden
       /\ row.name = cat.name /\ Outdated = {} =>
             row'.name = row.name \/ row'.name = cat'.name]_vars

Told(r) == Deleted /\ Holders = {} /\ At(r, "asked") /\ req[r].seen = NoName

(* A deletion made anywhere reaches the row with the next access that is   *)
(* not cut short, and for good, whatever requests were under way then.     *)
DeletionReachesRow ==
    \A r \in Request : Told(r) ~> At(r, "lost") \/ [](row.present => row.hidden)

=============================================================================
