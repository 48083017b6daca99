---------------------------- MODULE MCProjects ----------------------------
(* Values for the constants of Projects: the requests a run may contain.   *)
EXTENDS Projects

Plain(kind, user) ==
    [kind |-> kind, user |-> user, fields |-> {}, name |-> "old",
     description |-> NoDescription]

Edit(kind, user, fields) ==
    [Plain(kind, user) EXCEPT !.fields = fields, !.name = "new", !.description = "text"]

Patch == Edit("patch", "mia", {"name", "description"})
Create == Edit("create", "mia", {"description"})

(* Every kind of request, from one who may manage the project and one who *)
(* may not see it.                                                         *)
AllOrders == {Plain(k, u) : k \in {"read", "use", "delete"}, u \in {"mia", "sam"}}
             \cup {Patch, Create, Edit("patch", "sam", {"name"})}
=============================================================================
