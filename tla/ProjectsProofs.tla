--------------------------- MODULE ProjectsProofs ---------------------------
(* What holds of Projects for all users, names and descriptions, any       *)
(* number of requests with any orders, and any events outside.             *)
EXTENDS Projects, TLAPS

Req == [ask : Order, pc : {"idle"} \cup Running \cup Answered,
        seen : Name \cup {NoName}, copy : Row]

(* Only an access that was told a name goes on to the row, and only a row  *)
(* that is there is hidden.                                                *)
ProjectInv ==
    /\ TypeOK
    /\ \A r \in Request : At(r, "looked") => req[r].seen # NoName
    /\ row.hidden => row.present

(* At first the row has its type and no request has begun.                 *)
LEMMA InitProject == Init => ProjectInv
<1> SUFFICES ASSUME Init PROVE ProjectInv
    OBVIOUS
<1>1. NoRow \in Row /\ ~NoRow.present /\ ~NoRow.hidden
      BY NameAssumption DEF NoRow, Row
<1>2. cat \in [live : BOOLEAN, name : Name \cup {NoName}, members : SUBSET User]
      BY UserAssumption DEF Init
<1>3. /\ row \in Row /\ (row.present => row.name # NoName)
      /\ row.hidden => row.present
      BY <1>1 DEF Init
<1>4. /\ req \in [Request -> Req]
      /\ \A r \in Request : req[r].pc = "idle"
      BY <1>1, OrdersAssumption DEF Init, Req
<1> QED
    BY <1>2, <1>3, <1>4 DEF Init, ProjectInv, TypeOK, At, Req

(* One request moves, the others stay, and the row keeps its shape.        *)
LEMMA ReqStep ==
    ASSUME ProjectInv, NEW r \in Request, NEW new \in Req,
           req' = [req EXCEPT ![r] = new],
           new.pc = "looked" => new.seen # NoName,
           cat' \in [live : BOOLEAN, name : Name \cup {NoName}, members : SUBSET User],
           row' \in Row, row'.present => row'.name # NoName, row'.hidden => row'.present,
           events' \in Nat
    PROVE  ProjectInv'
<1>1. req' \in [Request -> Req]
      BY DEF ProjectInv, TypeOK, Req
<1>2. \A q \in Request : At(q, "looked")' => req'[q].seen # NoName
      BY DEF ProjectInv, TypeOK, At
<1> QED
    BY <1>1, <1>2 DEF ProjectInv, TypeOK, Req

(* Every stage of an access check keeps the invariant.                     *)
LEMMA AccessProject == ASSUME ProjectInv, NEW r \in Request, Access(r) PROVE ProjectInv'
<1> DEFINE moved(place) == [req[r] EXCEPT !.pc = place]
<1>1. req[r] \in Req /\ row \in Row
      BY DEF ProjectInv, TypeOK, Req
<1>2. ASSUME NEW place \in Running \cup Answered PROVE moved(place) \in Req
      BY <1>1 DEF Req
<1>3. CASE Deny(r)
  <2>1. req' = [req EXCEPT ![r] = moved("notfound")] /\ moved("notfound").pc = "notfound"
        BY <1>1, <1>3 DEF Deny, Move, ProjectInv, TypeOK, Req
  <2>2. row' \in Row /\ (row'.present => row'.name # NoName) /\ (row'.hidden => row'.present)
        BY <1>1, <1>3 DEF Deny, ProjectInv, TypeOK, Row
  <2>3. moved("notfound") \in Req
        BY <1>2 DEF Answered
  <2>4. cat' \in [live : BOOLEAN, name : Name \cup {NoName}, members : SUBSET User] /\ events' \in Nat
        BY <1>3 DEF Deny, ProjectInv, TypeOK
  <2> HIDE DEF moved
  <2> QED
      BY <2>1, <2>2, <2>3, <2>4, ReqStep
<1>4. CASE Look(r)
  <2> DEFINE new == [req[r] EXCEPT !.pc = "looked", !.copy = row]
  <2>1. req' = [req EXCEPT ![r] = new] /\ new.seen # NoName
        BY <1>4, <1>1 DEF Look, ProjectInv, TypeOK, Req
  <2>2. new \in Req
        BY <1>1 DEF Req, Running
  <2>3. /\ cat' \in [live : BOOLEAN, name : Name \cup {NoName}, members : SUBSET User]
        /\ row' \in Row /\ (row'.present => row'.name # NoName) /\ (row'.hidden => row'.present)
        /\ events' \in Nat
        BY <1>4 DEF Look, ProjectInv, TypeOK
  <2> HIDE DEF new
  <2> QED
      BY <2>1, <2>2, <2>3, ReqStep
<1>5. CASE Insert(r)
  <2>1. req' = [req EXCEPT ![r] = moved("saved")] /\ moved("saved").pc = "saved"
        BY <1>1, <1>5 DEF Insert, Move, ProjectInv, TypeOK, Req
  <2>2. row' \in Row /\ (row'.present => row'.name # NoName) /\ (row'.hidden => row'.present)
        BY <1>1, <1>5, NameAssumption DEF Insert, ProjectInv, At, NoRow, Row, Req
  <2>3. moved("saved") \in Req
        BY <1>2 DEF Running
  <2>4. cat' \in [live : BOOLEAN, name : Name \cup {NoName}, members : SUBSET User] /\ events' \in Nat
        BY <1>5 DEF Insert, ProjectInv, TypeOK
  <2> HIDE DEF moved
  <2> QED
      BY <2>1, <2>2, <2>3, <2>4, ReqStep
<1>6. CASE InsertClash(r)
  <2>1. req' = [req EXCEPT ![r] = moved("error")] /\ moved("error").pc = "error"
        BY <1>1, <1>6 DEF InsertClash, Move, ProjectInv, TypeOK, Req
  <2>2. moved("error") \in Req
        BY <1>2 DEF Answered
  <2> HIDE DEF moved
  <2> QED
      BY <1>6, <2>1, <2>2, ReqStep DEF InsertClash, ProjectInv, TypeOK
<1>7. CASE Update(r)
  <2>1. req' = [req EXCEPT ![r] = moved("saved")] /\ moved("saved").pc = "saved"
        BY <1>1, <1>7 DEF Update, Move, ProjectInv, TypeOK, Req
  <2>2. row' \in Row /\ (row'.present => row'.name # NoName) /\ (row'.hidden => row'.present)
        BY <1>1, <1>7 DEF Update, ProjectInv, TypeOK, At, Written, Row, Req
  <2>3. moved("saved") \in Req
        BY <1>2 DEF Running
  <2>4. cat' \in [live : BOOLEAN, name : Name \cup {NoName}, members : SUBSET User] /\ events' \in Nat
        BY <1>7 DEF Update, ProjectInv, TypeOK
  <2> HIDE DEF moved
  <2> QED
      BY <2>1, <2>2, <2>3, <2>4, ReqStep
<1>8. CASE Refresh(r)
  <2> DEFINE new == [req[r] EXCEPT !.pc = IF Asks(r, "read") THEN "done" ELSE "granted",
                                   !.copy = row]
  <2>1. req' = [req EXCEPT ![r] = new] /\ new.pc # "looked"
        BY <1>8, <1>1 DEF Refresh, ProjectInv, TypeOK, Req
  <2>2. new \in Req
        BY <1>1 DEF Req, Running, Answered
  <2>3. /\ cat' \in [live : BOOLEAN, name : Name \cup {NoName}, members : SUBSET User]
        /\ row' \in Row /\ (row'.present => row'.name # NoName) /\ (row'.hidden => row'.present)
        /\ events' \in Nat
        BY <1>8 DEF Refresh, ProjectInv, TypeOK
  <2> HIDE DEF new
  <2> QED
      BY <2>1, <2>2, <2>3, ReqStep
<1> QED
    BY <1>3, <1>4, <1>5, <1>6, <1>7, <1>8 DEF Access

(* So does what the request then does with the project.                    *)
LEMMA ServeProject == ASSUME ProjectInv, NEW r \in Request, Serve(r) PROVE ProjectInv'
<1>1. req[r] \in Req /\ row \in Row
      BY DEF ProjectInv, TypeOK, Req
<1>2. PICK place \in (Running \cup Answered) \ {"looked"} :
        req' = [req EXCEPT ![r] = [req[r] EXCEPT !.pc = place]]
      BY DEF Serve, Use, PatchRename, PatchCommit, Refuse, DeleteInCatalogue, DeleteLocal,
             CreateCommit, Move, Running, Answered, ProjectInv, TypeOK
<1>3. /\ [req[r] EXCEPT !.pc = place] \in Req
      /\ [req[r] EXCEPT !.pc = place].pc # "looked"
      BY <1>1, <1>2 DEF Req
<1>4. cat' \in [live : BOOLEAN, name : Name \cup {NoName}, members : SUBSET User]
      BY <1>1 DEF Serve, Use, PatchRename, PatchCommit, Refuse, DeleteInCatalogue,
                  DeleteLocal, CreateCommit, ProjectInv, TypeOK, Req, Order
<1>5. row' \in Row /\ (row'.present => row'.name # NoName) /\ (row'.hidden => row'.present)
  <2>1. CASE PatchCommit(r)
        BY <1>1, <2>1, NameAssumption
        DEF PatchCommit, Described, Written, Row, ProjectInv, TypeOK, Req, Order
  <2>2. CASE CreateCommit(r)
        BY <1>1, <2>2 DEF CreateCommit, Described, Written, Row, ProjectInv, TypeOK, Req, Order
  <2>3. CASE DeleteLocal(r)
        BY <1>1, <2>3 DEF DeleteLocal, Row, ProjectInv, TypeOK
  <2>4. CASE UNCHANGED row
        BY <2>4 DEF ProjectInv, TypeOK
  <2> QED
      BY <2>1, <2>2, <2>3, <2>4 DEF Serve, Use, PatchRename, Refuse, DeleteInCatalogue
<1>6. events' \in Nat
      BY DEF Serve, Use, PatchRename, PatchCommit, Refuse, DeleteInCatalogue, DeleteLocal,
             CreateCommit, ProjectInv, TypeOK
<1> QED
    BY <1>2, <1>3, <1>4, <1>5, <1>6, ReqStep

(* Every step keeps the invariant.                                         *)
LEMMA StepProject == ProjectInv /\ [Next]_vars => ProjectInv'
<1> SUFFICES ASSUME ProjectInv, [Next]_vars PROVE ProjectInv'
    OBVIOUS
<1>1. ASSUME NEW r \in Request, Ask(r) \/ CreateInCatalogue(r) \/ CreateRefused(r)
      PROVE  ProjectInv'
  <2>1. req[r] \in Req
        BY DEF ProjectInv, TypeOK, Req
  <2>2. PICK place \in {"asked", "refused"}, name \in Name \cup {NoName} :
          req' = [req EXCEPT ![r] = [req[r] EXCEPT !.pc = place, !.seen = name]]
    <3>1. CASE Ask(r)
          BY <3>1 DEF Ask, ProjectInv, TypeOK, Visible
    <3>2. CASE CreateInCatalogue(r)
          BY <2>1, <3>2 DEF CreateInCatalogue, ProjectInv, TypeOK, Req, Order
    <3>3. CASE CreateRefused(r)
      <4>1. req' = [req EXCEPT ![r] = [req[r] EXCEPT !.pc = "refused", !.seen = req[r].seen]]
            BY <2>1, <3>3 DEF CreateRefused, Move, ProjectInv, TypeOK, Req
      <4> QED
          BY <2>1, <4>1 DEF Req
    <3> QED
        BY <1>1, <3>1, <3>2, <3>3
  <2> DEFINE new == [req[r] EXCEPT !.pc = place, !.seen = name]
  <2>3. new \in Req /\ new.pc # "looked"
        BY <2>1, <2>2 DEF Req, Running, Answered
  <2>4. cat' \in [live : BOOLEAN, name : Name \cup {NoName}, members : SUBSET User]
        BY <1>1, <2>1 DEF Ask, CreateInCatalogue, CreateRefused, ProjectInv, TypeOK, Req, Order
  <2>5. UNCHANGED <<row, events>>
        BY <1>1 DEF Ask, CreateInCatalogue, CreateRefused
  <2>6. req' = [req EXCEPT ![r] = new]
        BY <2>2
  <2> HIDE DEF new
  <2> QED
      BY <2>3, <2>4, <2>5, <2>6, ReqStep DEF ProjectInv, TypeOK
<1>2. CASE Outside
  <2>1. ASSUME NEW r \in Request, RequestLost(r) PROVE ProjectInv'
    <3> DEFINE new == [req[r] EXCEPT !.pc = "lost"]
    <3>1. new \in Req /\ new.pc # "looked"
          BY DEF ProjectInv, TypeOK, Req, Answered
    <3>2. req' = [req EXCEPT ![r] = new]
          BY <2>1 DEF RequestLost, Move, ProjectInv, TypeOK
    <3>3. UNCHANGED <<cat, row>> /\ events' \in Nat
          BY <2>1 DEF RequestLost, Event, ProjectInv, TypeOK
    <3> HIDE DEF new
    <3> QED
        BY <3>1, <3>2, <3>3, ReqStep DEF ProjectInv, TypeOK
  <2>2. CASE CatalogueDelete \/ (\E n \in Name : CatalogueRename(n))
                             \/ (\E u \in User : CatalogueRevoke(u))
    <3>1. cat' \in [live : BOOLEAN, name : Name \cup {NoName}, members : SUBSET User]
          BY <2>2 DEF CatalogueDelete, CatalogueRename, CatalogueRevoke, ProjectInv, TypeOK
    <3>2. UNCHANGED <<row, req>> /\ events' \in Nat
          BY <2>2 DEF CatalogueDelete, CatalogueRename, CatalogueRevoke, Event, ProjectInv, TypeOK
    <3> QED
        BY <3>1, <3>2 DEF ProjectInv, TypeOK, At
  <2> QED
      BY <1>2, <2>1, <2>2 DEF Outside
<1>3. CASE UNCHANGED vars
      BY <1>3 DEF vars, ProjectInv, TypeOK, At
<1> QED
    BY <1>1, <1>2, <1>3, AccessProject, ServeProject DEF Next, Terminating

(* The invariant of the module.                                            *)
LEMMA ProjectInvariant == Spec => []ProjectInv
BY InitProject, StepProject, PTL DEF Spec

(* Every variable keeps its type, and a row that is there has a name.      *)
THEOREM ProjectTypes == Spec => []TypeOK
<1>1. ProjectInv => TypeOK
      BY DEF ProjectInv
<1> QED
    BY <1>1, ProjectInvariant, PTL

-----------------------------------------------------------------------------
(* A step of the code spoils a right row only with an outdated answer.     *)
LEMMA StepSpoils ==
    ASSUME ProjectInv, Next
    PROVE  /\ Deleted /\ Holders = {} /\ row.hidden => row'.hidden
           /\ row.name = cat.name /\ Outdated = {} =>
                 row'.name = row.name \/ row'.name = cat'.name
<1>1. ASSUME NEW r \in Request, At(r, "looked")
      PROVE  r \in Holders /\ (Outdated = {} => req[r].seen = cat.name)
      BY <1>1 DEF ProjectInv, At, Holders, Outdated
<1>2. ASSUME NEW r \in Request, At(r, "renamed")
      PROVE  Outdated = {} => req[r].ask.name = cat.name
      BY <1>2 DEF Outdated
<1>3. CASE UNCHANGED row
      BY <1>3
<1>4. ASSUME NEW r \in Request, Insert(r) \/ Update(r)
      PROVE  /\ r \in Holders
             /\ Outdated = {} => row'.name \in {row.name, cat.name}
             /\ UNCHANGED cat
      BY <1>1, <1>4 DEF Insert, Update, Written, ProjectInv, TypeOK, Row, NoRow
<1>5. ASSUME NEW r \in Request, Deny(r) \/ DeleteLocal(r)
      PROVE  row'.name = row.name /\ (row.hidden => row'.hidden)
      BY <1>5 DEF Deny, DeleteLocal, ProjectInv, TypeOK, Row
<1>6. ASSUME NEW r \in Request, PatchCommit(r) \/ CreateCommit(r)
      PROVE  /\ row'.hidden = row.hidden /\ UNCHANGED cat
             /\ Outdated = {} => row'.name \in {row.name, cat.name}
      BY <1>2, <1>6 DEF PatchCommit, CreateCommit, Written, ProjectInv, TypeOK, Row
<1>7. \/ UNCHANGED row
      \/ \E r \in Request : Insert(r) \/ Update(r) \/ Deny(r) \/ DeleteLocal(r)
                            \/ PatchCommit(r) \/ CreateCommit(r)
      BY DEF Next, Access, Serve, Outside, Terminating, Ask, CreateInCatalogue, CreateRefused,
             Look, InsertClash, Refresh, Use, PatchRename, Refuse, DeleteInCatalogue,
             CatalogueRename, CatalogueDelete, CatalogueRevoke, RequestLost, vars
<1> QED
    BY <1>3, <1>4, <1>5, <1>6, <1>7

(* Once a row is right only an answer that is out of date can spoil it.    *)
THEOREM StaleAnswersOnly == Spec => OnlyStaleAnswersSpoil
<1>1. ProjectInv /\ [Next]_vars =>
        [/\ Deleted /\ Holders = {} /\ row.hidden => row'.hidden
         /\ row.name = cat.name /\ Outdated = {} =>
               row'.name = row.name \/ row'.name = cat'.name]_vars
      BY StepSpoils
<1> QED
    BY <1>1, ProjectInvariant, PTL DEF Spec, OnlyStaleAnswersSpoil

-----------------------------------------------------------------------------
(* What is so while r is the only request with a description to write: its *)
(* session has read the one the row has, or there has been none, and the   *)
(* row does not go away again.                                             *)
Keeps(r) ==
    /\ ~At(r, "dropped")
    /\ At(r, "looked") /\ req[r].copy.present => row.present
    /\ req[r].pc \in {"saved", "granted", "renamed", "done"} => row.present
    /\ req[r].pc \in {"granted", "renamed"} => req[r].copy.description = row.description
    /\ At(r, "done") => row.description = req[r].ask.description
    /\ /\ Asks(r, "create")
       /\ \/ req[r].pc \in {"asked", "looked", "saved", "granted"}
          \/ At(r, "idle") /\ cat.name = NoName
       => row.description = NoDescription

KeptInv == ProjectInv /\ \A r \in Request : Describers = {r} => Keeps(r)

(* At first there is no description to keep.                               *)
LEMMA InitKept == Init => KeptInv
<1> SUFFICES ASSUME Init PROVE KeptInv
    OBVIOUS
<1>1. ASSUME NEW r \in Request PROVE At(r, "idle")
      BY DEF Init, At
<1>2. cat.name = NoName => row.description = NoDescription
      BY DEF Init, NoRow
<1> QED
    BY <1>1, <1>2, InitProject DEF KeptInv, Keeps, At

(* What other requests and the Catalogue may do to a row without a         *)
(* description to write into it.                                           *)
LEMMA OthersKeep ==
    ASSUME NEW r \in Request, Keeps(r), req'[r] = req[r],
           row.present => row'.present,
           \/ row'.description = row.description
           \/ ~row.present /\ row'.description = NoDescription,
           cat'.name = NoName => cat.name = NoName
    PROVE  Keeps(r)'
BY DEF Keeps, At, Asks

(* The steps of the request itself.                                        *)
LEMMA OwnKeep ==
    ASSUME ProjectInv, NEW r \in Request, r \in Describers, Keeps(r),
           Ask(r) \/ CreateInCatalogue(r) \/ CreateRefused(r) \/ Access(r) \/ Serve(r)
    PROVE  Keeps(r)'
<1>1. req[r] \in Req /\ row \in Row /\ req \in [Request -> Req]
      BY DEF ProjectInv, TypeOK, Req
<1>2. req[r].ask.kind \in {"patch", "create"} /\ "description" \in req[r].ask.fields
      BY DEF Describers
<1>3. CASE Ask(r) \/ CreateInCatalogue(r) \/ CreateRefused(r)
      BY <1>1, <1>2, <1>3 DEF Ask, CreateInCatalogue, CreateRefused, Move, Keeps, At, Asks, Req
<1>4. CASE Deny(r) \/ Look(r) \/ InsertClash(r) \/ Refresh(r)
      BY <1>1, <1>2, <1>4 DEF Deny, Look, InsertClash, Refresh, Move, Keeps, At, Asks, Req, Row
<1>5. CASE Insert(r)
      BY <1>1, <1>2, <1>5 DEF Insert, Move, Keeps, At, Asks, Req, Row, NoRow
<1>6. CASE Update(r)
      BY <1>1, <1>2, <1>6 DEF Update, Move, Keeps, At, Asks, Req, Row
<1>7. CASE Use(r) \/ DeleteInCatalogue(r) \/ DeleteLocal(r) \/ Refuse(r) \/ PatchRename(r)
  <2>1. ~DeleteInCatalogue(r) /\ ~Use(r)
        BY <1>2 DEF DeleteInCatalogue, Use, Asks
  <2>2. CASE Refuse(r) \/ PatchRename(r)
        BY <1>1, <1>2, <2>2 DEF Refuse, PatchRename, Move, Keeps, At, Asks, Req
  <2>3. CASE DeleteLocal(r)
        BY <2>3 DEF DeleteLocal, Keeps
  <2> QED
      BY <1>7, <2>1, <2>2, <2>3
<1>8. CASE PatchCommit(r)
      BY <1>1, <1>2, <1>8 DEF PatchCommit, Described, Written, Move, Keeps, At, Asks, Req, Row
<1>9. CASE CreateCommit(r)
      BY <1>1, <1>2, <1>9 DEF CreateCommit, Described, Written, Move, Keeps, At, Asks, Req, Row
<1> QED
    BY <1>3, <1>4, <1>5, <1>6, <1>7, <1>8, <1>9 DEF Access, Serve

(* Every step keeps the description that was committed last.               *)
LEMMA StepKept == KeptInv /\ [Next]_vars => KeptInv'
<1> SUFFICES ASSUME KeptInv, [Next]_vars PROVE KeptInv'
    OBVIOUS
<1>1. ProjectInv'
      BY StepProject DEF KeptInv
<1>2. ASSUME NEW r \in Request PROVE req'[r].ask = req[r].ask
  <2>1. req \in [Request -> Req]
        BY DEF KeptInv, ProjectInv, TypeOK, Req
  <2>2. ASSUME NEW q \in Request, Ask(q) \/ CreateInCatalogue(q) \/ CreateRefused(q)
        PROVE  req'[r].ask = req[r].ask
        BY <2>1, <2>2 DEF Ask, CreateInCatalogue, CreateRefused, Move, Req
  <2>3. ASSUME NEW q \in Request, Access(q) \/ Serve(q) PROVE req'[r].ask = req[r].ask
        BY <2>1, <2>3 DEF Access, Serve, Deny, Look, Insert, InsertClash, Update, Refresh, Use,
             PatchRename, PatchCommit, Refuse, DeleteInCatalogue, DeleteLocal, CreateCommit,
             Move, Req
  <2>4. ASSUME NEW q \in Request, RequestLost(q) PROVE req'[r].ask = req[r].ask
        BY <2>1, <2>4 DEF RequestLost, Move, Req
  <2> QED
      BY <2>2, <2>3, <2>4 DEF Next, Outside, Terminating, CatalogueRename, CatalogueDelete,
                              CatalogueRevoke, vars
<1>3. Describers' = Describers
      BY <1>2 DEF Describers
<1>4. ASSUME NEW r \in Request, Describers = {r}, Keeps(r) PROVE Keeps(r)'
  <2>1. ASSUME NEW q \in Request, q # r,
               Ask(q) \/ CreateInCatalogue(q) \/ CreateRefused(q) \/ Access(q) \/ Serve(q)
        PROVE  Keeps(r)'
    <3>1. req[q] \in Req /\ row \in Row /\ req \in [Request -> Req] /\ q \notin Describers
          BY <1>4, <2>1 DEF KeptInv, ProjectInv, TypeOK, Req
    <3>2. req'[r] = req[r]
          BY <2>1, <3>1 DEF Ask, CreateInCatalogue, CreateRefused, Access, Serve, Deny, Look,
             Insert, InsertClash, Update, Refresh, Use, PatchRename, PatchCommit, Refuse,
             DeleteInCatalogue, DeleteLocal, CreateCommit, Move
    <3>3. cat'.name = NoName => cat.name = NoName
          BY <2>1, <3>1, NameAssumption
          DEF Ask, CreateInCatalogue, CreateRefused, Access, Serve, Deny, Look,
              Insert, InsertClash, Update, Refresh, Use, PatchRename, PatchCommit, Refuse,
              DeleteInCatalogue, DeleteLocal, CreateCommit, KeptInv, ProjectInv, TypeOK, Req, Order
    <3>4. /\ row.present => row'.present
          /\ \/ row'.description = row.description
             \/ ~row.present /\ row'.description = NoDescription
      <4>1. CASE Insert(q)
            BY <4>1 DEF Insert, NoRow
      <4>2. CASE Deny(q) \/ DeleteLocal(q) \/ Update(q)
            BY <3>1, <4>2 DEF Deny, DeleteLocal, Update, Row
      <4>3. CASE PatchCommit(q) \/ CreateCommit(q)
        <5>1. "description" \notin req[q].ask.fields
              BY <3>1, <4>3 DEF PatchCommit, CreateCommit, Asks, Describers
        <5> QED
            BY <3>1, <4>3, <5>1 DEF PatchCommit, CreateCommit, Described, Row
      <4>4. CASE UNCHANGED row
            BY <4>4
      <4> QED
          BY <2>1, <4>1, <4>2, <4>3, <4>4
          DEF Ask, CreateInCatalogue, CreateRefused, Access, Serve, Look, InsertClash, Refresh,
              Use, PatchRename, Refuse, DeleteInCatalogue
    <3> QED
        BY <1>4, <3>2, <3>3, <3>4, OthersKeep
  <2>2. CASE \E n \in Name : CatalogueRename(n)
        BY <1>4, <2>2, OthersKeep, NameAssumption DEF CatalogueRename, KeptInv, ProjectInv, TypeOK
  <2>3. CASE CatalogueDelete \/ \E u \in User : CatalogueRevoke(u)
        BY <1>4, <2>3, OthersKeep DEF CatalogueDelete, CatalogueRevoke, KeptInv, ProjectInv, TypeOK
  <2>4. ASSUME NEW q \in Request, RequestLost(q) PROVE Keeps(r)'
    <3>1. UNCHANGED <<cat, row>> /\ (req'[r] = req[r] \/ req'[r].pc = "lost")
          BY <2>4 DEF RequestLost, Move, KeptInv, ProjectInv, TypeOK
    <3> QED
        BY <1>4, <3>1 DEF Keeps, At, Asks
  <2>5. CASE UNCHANGED vars
        BY <1>4, <2>5, OthersKeep DEF vars
  <2> QED
      BY <1>4, <2>1, <2>2, <2>3, <2>4, <2>5, OwnKeep
      DEF Next, Outside, Terminating, KeptInv
<1> QED
    BY <1>1, <1>3, <1>4 DEF KeptInv

(* A description that one request set is not undone by the accesses that   *)
(* refresh, hide and undelete the row at the same time.                    *)
THEOREM DescriptionsKept == Spec => []DescriptionIsKept
<1>1. KeptInv => DescriptionIsKept
      BY DEF KeptInv, Keeps, DescriptionIsKept, Describers
<1> QED
    BY <1>1, InitKept, StepKept, PTL DEF Spec

=============================================================================
