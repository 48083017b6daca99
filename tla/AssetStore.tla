----------------------------- MODULE AssetStore -----------------------------
(***************************************************************************)
(* What the assets promise to whoever uses them.  An asset comes into      *)
(* being whole and in one step, and its content is never another.  A       *)
(* request looks it up once.  If it finds the asset it may still fail, but *)
(* it never fails to get the content, though the asset be deleted in the   *)
(* meantime; and what it changes it changes in one step, and leaves        *)
(* everything else as it is then.  There are no files here, no half made   *)
(* assets and no copies of rows.  Assets implements it.                    *)
(***************************************************************************)
CONSTANTS Asset, Request, Name, Content

VARIABLES
    store,  \* the assets
    asked   \* what each request asks for, and what it has been told

NoName == "null"
Nothing == [content |-> "none", name |-> NoName, deleted |-> FALSE, is_intermediate |-> FALSE]

Init ==
    /\ store = [a \in Asset |-> Nothing]
    /\ asked \in [Request -> [kind : {"rename", "delete", "flag", "read"}, asset : Asset,
                              name : Name \cup {NoName}, told : {"nothing"}]]

Publish(a) ==
    /\ store[a] = Nothing
    /\ \E content \in Content, name \in Name :
         store' = [store EXCEPT ![a] = [content |-> content, name |-> name,
                                        deleted |-> FALSE, is_intermediate |-> FALSE]]
    /\ UNCHANGED asked

-----------------------------------------------------------------------------
Wanted(r) == store[asked[r].asset]

Visible(r) ==
    /\ Wanted(r) # Nothing
    /\ asked[r].kind = "flag" \/ ~Wanted(r).deleted

Tell(r, before, now) ==
    /\ asked[r].told = before
    /\ asked' = [asked EXCEPT ![r].told = now]

Find(r) == Visible(r) /\ Tell(r, "nothing", "found") /\ UNCHANGED store
Miss(r) == ~Visible(r) /\ Tell(r, "nothing", "missed") /\ UNCHANGED store
Fail(r) == Tell(r, "found", "failed") /\ UNCHANGED store

(* A rename may find that the name is what it asks for when it looks, and  *)
(* then leaves the one that is there when it writes.                       *)
Rename(r) ==
    /\ asked[r].kind = "rename" /\ asked[r].name # NoName
    /\ \E name \in {asked[r].name, Wanted(r).name} :
         store' = [store EXCEPT ![asked[r].asset].name = name]
    /\ Tell(r, "found", "done")

Delete(r) ==
    /\ asked[r].kind = "delete"
    /\ store' = [store EXCEPT ![asked[r].asset].deleted = TRUE]
    /\ Tell(r, "found", "done")

Flag(r) ==
    /\ asked[r].kind = "flag"
    /\ store' = [store EXCEPT ![asked[r].asset].is_intermediate = TRUE]
    /\ Tell(r, "found", "done")

Read(r) ==
    /\ asked[r].kind = "read"
    /\ Tell(r, "found", Wanted(r).content)
    /\ UNCHANGED store

Next ==
    \/ \E a \in Asset : Publish(a)
    \/ \E r \in Request : \/ Find(r) \/ Miss(r) \/ Fail(r)
                          \/ Rename(r) \/ Delete(r) \/ Flag(r) \/ Read(r)

Spec == Init /\ [][Next]_<<store, asked>>
=============================================================================
