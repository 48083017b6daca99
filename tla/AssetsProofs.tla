---------------------------- MODULE AssetsProofs ----------------------------
(* What holds of Assets for every number of assets and of requests, all    *)
(* names and every choice of faults.                                       *)
EXTENDS Assets, TLAPS

Make == [pc : {"idle", "saving", "saved", "refused", "made", "lost"},
         source : Source, content : Whole, name : Name]
Use == [pc : {"idle", "loaded", "done", "notfound", "missing", "error"},
        kind : Kinds, asset : Asset, name : Name \cup {Null}, copy : Row]

Types ==
    /\ rows \in [Asset -> Row] /\ files \in [Asset -> Content]
    /\ make \in [Asset -> Make] /\ use \in [Request -> Use] /\ faults \in 0..MaxFaults

(* How far an asset has been made, and what there is of it by then.        *)
Stored(a) ==
    /\ rows[a].present => rows[a].name # Null
    /\ make[a].pc # "made" => rows[a] = NoRow
    /\ make[a].pc = "made" => /\ rows[a].present /\ rows[a].checksum = files[a]
                              /\ files[a] = make[a].content /\ ~TooLarge(a)
    /\ make[a].pc \in {"idle", "refused"} => files[a] = "none"
    /\ make[a].pc = "saved" => files[a] = make[a].content

(* A request that goes on after its read has seen a row that is there, a   *)
(* checksum that nothing changes any more and a flag that nothing resets.  *)
Seen(r) ==
    /\ use[r].pc \in {"loaded", "done"} => rows[use[r].asset].present
    /\ use[r].pc = "loaded" =>
          /\ use[r].copy.checksum = rows[use[r].asset].checksum
          /\ use[r].copy.is_intermediate => rows[use[r].asset].is_intermediate
    /\ use[r].pc # "missing"

AssetInv == Types /\ (\A a \in Asset : Stored(a)) /\ (\A r \in Request : Seen(r))

(* At first there is neither row nor file.                                 *)
LEMMA InitAsset == Init => AssetInv
<1> SUFFICES ASSUME Init PROVE AssetInv
    OBVIOUS
<1>1. NoRow \in Row /\ NoRow.present = FALSE
      BY DEF NoRow, Row, Content
<1>2. Types
      BY <1>1, FaultsAssumption DEF Init, Types, Make, Use, Content
<1>3. \A a \in Asset : Stored(a)
      BY <1>1 DEF Init, Stored
<1>4. \A r \in Request : Seen(r)
      BY DEF Init, Seen
<1> QED
    BY <1>2, <1>3, <1>4 DEF AssetInv

(* A step in the making of an asset changes nothing of another one, and    *)
(* nothing a request has seen.                                             *)
LEMMA MakeKeeps ==
    ASSUME AssetInv, NEW a \in Asset, Types', Stored(a)', use' = use,
           \A b \in Asset \ {a} : rows'[b] = rows[b] /\ files'[b] = files[b] /\ make'[b] = make[b],
           rows'[a] = rows[a] \/ make[a].pc # "made"
    PROVE  AssetInv'
<1>1. ASSUME NEW b \in Asset PROVE Stored(b)'
      BY DEF AssetInv, Stored, TooLarge
<1>2. ASSUME NEW r \in Request PROVE Seen(r)'
  <2>1. use[r].asset \in Asset
        BY DEF AssetInv, Types, Use
  <2>2. use[r].pc \in {"loaded", "done"} => rows'[use[r].asset] = rows[use[r].asset]
        BY <2>1 DEF AssetInv, Seen, Stored, NoRow
  <2> QED
      BY <2>2 DEF AssetInv, Seen
<1> QED
    BY <1>1, <1>2 DEF AssetInv

(* An edit leaves the columns present and checksum of a row as they are.   *)
LEMMA UseKeeps ==
    ASSUME AssetInv, NEW r \in Request, Types', files' = files, make' = make, Seen(r)',
           \A q \in Request \ {r} : use'[q] = use[q],
           \A a \in Asset : \/ rows'[a] = rows[a]
                            \/ /\ a = use[r].asset /\ use[r].pc = "loaded"
                               /\ rows'[a].present = rows[a].present
                               /\ rows'[a].checksum = rows[a].checksum
                               /\ rows[a].is_intermediate => rows'[a].is_intermediate
                               /\ rows'[a].name # Null
    PROVE  AssetInv'
<1>1. ASSUME NEW a \in Asset PROVE Stored(a)'
  <2>1. CASE rows'[a] = rows[a]
        BY <2>1 DEF AssetInv, Stored, TooLarge
  <2>2. CASE rows'[a] # rows[a]
    <3>1. make[a].pc = "made"
          BY <2>2 DEF AssetInv, Seen, Stored, NoRow
    <3> QED
        BY <2>2, <3>1 DEF AssetInv, Stored, TooLarge
  <2> QED
      BY <2>1, <2>2
<1>2. ASSUME NEW q \in Request PROVE Seen(q)'
  <2>1. use[q].asset \in Asset
        BY DEF AssetInv, Types, Use
  <2> QED
      BY <2>1 DEF AssetInv, Seen
<1> QED
    BY <1>1, <1>2 DEF AssetInv

(* The three edits, by what they leave in the row.                         *)
Edit(r) == Rename(r) \/ SoftDelete(r) \/ Flag(r)

(* An edit ends its request and writes one row, nothing else.              *)
LEMMA EditWrites ==
    ASSUME AssetInv, NEW r \in Request, Edit(r)
    PROVE  /\ use[r].pc = "loaded" /\ use' = [use EXCEPT ![r].pc = "done"]
           /\ rows' \in [Asset -> Row] /\ files' = files /\ make' = make /\ faults' = faults
           /\ \A a \in Asset : a # use[r].asset => rows'[a] = rows[a]
           /\ LET old == rows[use[r].asset]
                  new == rows'[use[r].asset]
              IN /\ new.present = old.present /\ new.checksum = old.checksum
                 /\ old.deleted => new.deleted
                 /\ old.is_intermediate => new.is_intermediate
                 /\ \/ new.name = old.name
                    \/ use[r].kind = "rename" /\ new.name = use[r].name
                 /\ new.name # Null
<1> DEFINE a == use[r].asset
<1>1. a \in Asset /\ rows[a] \in Row /\ use[r].pc = "loaded" /\ use' = [use EXCEPT ![r].pc = "done"]
      /\ files' = files /\ make' = make /\ faults' = faults /\ rows[a].name # Null
      BY DEF AssetInv, Types, Use, Edit, Rename, SoftDelete, Flag, Using, UseMove, Seen, Stored
<1>2. CASE Rename(r)
  <2> DEFINE new == [rows[a] EXCEPT !.name = Written(@, use[r].copy.name, use[r].name)]
  <2>1. rows' = [rows EXCEPT ![a] = new]
        BY <1>1, <1>2 DEF Rename, AssetInv, Types
  <2>2. use[r].name \in Name /\ use[r].kind = "rename"
        BY <1>2 DEF Rename, AssetInv, Types, Use
  <2>3. new \in Row /\ new.present = rows[a].present /\ new.checksum = rows[a].checksum
        /\ new.deleted = rows[a].deleted /\ new.is_intermediate = rows[a].is_intermediate
        /\ (new.name = rows[a].name \/ new.name = use[r].name)
        BY <1>1, <2>2 DEF Row, Written
  <2> HIDE DEF new
  <2> QED
      BY <1>1, <2>1, <2>2, <2>3, NameAssumption DEF AssetInv, Types
<1>3. CASE SoftDelete(r)
  <2> DEFINE new == [rows[a] EXCEPT !.deleted = TRUE]
  <2>1. rows' = [rows EXCEPT ![a] = new]
        BY <1>1, <1>3 DEF SoftDelete, AssetInv, Types
  <2>2. new \in Row /\ new.present = rows[a].present /\ new.checksum = rows[a].checksum
        /\ new.deleted /\ new.is_intermediate = rows[a].is_intermediate
        /\ new.name = rows[a].name
        BY <1>1 DEF Row
  <2> HIDE DEF new
  <2> QED
      BY <1>1, <2>1, <2>2 DEF AssetInv, Types
<1>4. CASE Flag(r)
  <2> DEFINE new == [rows[a] EXCEPT !.is_intermediate =
                        Written(@, use[r].copy.is_intermediate, TRUE)]
  <2>1. rows' = [rows EXCEPT ![a] = new]
        BY <1>1, <1>4 DEF Flag, AssetInv, Types
  <2>2. new \in Row /\ new.present = rows[a].present /\ new.checksum = rows[a].checksum
        /\ new.deleted = rows[a].deleted /\ (rows[a].is_intermediate => new.is_intermediate)
        /\ new.name = rows[a].name
        BY <1>1 DEF Row, Written
  <2> HIDE DEF new
  <2> QED
      BY <1>1, <2>1, <2>2 DEF AssetInv, Types
<1> QED
    BY <1>2, <1>3, <1>4 DEF Edit

(* Every step keeps the invariant.                                         *)
LEMMA NextAsset == AssetInv /\ [Next]_vars => AssetInv'
<1> SUFFICES ASSUME AssetInv, [Next]_vars PROVE AssetInv'
    OBVIOUS
<1>t. Types
      BY DEF AssetInv
<1>1. ASSUME NEW a \in Asset, Refuse(a) \/ Open(a) \/ Save(a) \/ Reject(a) PROVE AssetInv'
  <2>1. make[a].pc # "made" /\ rows' = rows /\ use' = use /\ faults' = faults
        BY <1>1 DEF Refuse, Open, Save, Reject, Making
  <2>2. /\ make' \in [Asset -> Make] /\ files' \in [Asset -> Content]
        /\ \A b \in Asset \ {a} : files'[b] = files[b] /\ make'[b] = make[b]
        BY <1>1, <1>t DEF Refuse, Open, Save, Reject, MakeMove, Types, Make, Content, Whole
  <2>3. Stored(a)'
        BY <1>1, <1>t DEF Refuse, Open, Save, Reject, Making, MakeMove, Types, Make, AssetInv,
                          Stored, TooLarge
  <2>4. Types'
        BY <1>t, <2>1, <2>2 DEF Types
  <2> QED
      BY <2>1, <2>2, <2>3, <2>4, MakeKeeps
<1>2. ASSUME NEW a \in Asset, Register(a) PROVE AssetInv'
  <2> DEFINE new == [NoRow EXCEPT !.present = TRUE, !.name = make[a].name, !.checksum = files[a]]
  <2>1. make[a].pc = "saved" /\ ~TooLarge(a) /\ files' = files /\ use' = use /\ faults' = faults
        /\ rows' = [rows EXCEPT ![a] = new] /\ make' = [make EXCEPT ![a].pc = "made"]
        BY <1>2, <1>t DEF Register, Making, MakeMove, Types
  <2>2. make[a].name \in Name /\ files[a] \in Content
        BY <1>t DEF Types, Make
  <2>3. new \in Row /\ new.present /\ new.name # Null /\ new.checksum = files[a]
        BY <2>2, NameAssumption DEF NoRow, Row
  <2> HIDE DEF new
  <2>4. make' \in [Asset -> Make] /\ make'[a].pc = "made" /\ make'[a].content = make[a].content
        /\ make'[a].source = make[a].source
        /\ rows' \in [Asset -> Row] /\ rows'[a] = new
        /\ \A b \in Asset \ {a} : rows'[b] = rows[b] /\ make'[b] = make[b]
        BY <1>t, <2>1, <2>3 DEF Types, Make
  <2>5. Stored(a)'
        BY <2>1, <2>3, <2>4 DEF AssetInv, Stored, TooLarge
  <2>6. Types'
        BY <1>t, <2>1, <2>4 DEF Types
  <2> QED
      BY <2>1, <2>4, <2>5, <2>6, MakeKeeps
<1>3. ASSUME NEW a \in Asset, MakeFails(a) PROVE AssetInv'
  <2>1. make[a].pc \in {"saving", "saved"} /\ make' = [make EXCEPT ![a].pc = "lost"]
        /\ rows' = rows /\ files' = files /\ use' = use /\ faults' \in 0..MaxFaults
        BY <1>3, <1>t, FaultsAssumption DEF MakeFails, Fault, Making, MakeMove, Types
  <2>2. make' \in [Asset -> Make] /\ make'[a].pc = "lost"
        /\ \A b \in Asset \ {a} : make'[b] = make[b]
        BY <1>t, <2>1 DEF Types, Make
  <2>3. Stored(a)'
        BY <2>1, <2>2 DEF AssetInv, Stored
  <2>4. Types'
        BY <1>t, <2>1, <2>2 DEF Types
  <2> QED
      BY <2>1, <2>2, <2>3, <2>4, MakeKeeps
<1>4. ASSUME NEW r \in Request, Edit(r) PROVE AssetInv'
  <2>1. use' = [use EXCEPT ![r].pc = "done"]
        BY <1>4, EditWrites
  <2>2. use' \in [Request -> Use] /\ use'[r].pc = "done" /\ \A q \in Request \ {r} : use'[q] = use[q]
        BY <1>t, <2>1 DEF Types, Use
  <2>3. Types'
        BY <1>4, <1>t, <2>2, EditWrites DEF Types
  <2>4. rows'[use[r].asset].present /\ use'[r].asset = use[r].asset
        BY <1>4, <1>t, EditWrites DEF AssetInv, Seen, Types, Use
  <2>5. Seen(r)'
        BY <2>2, <2>4 DEF Seen
  <2> QED
      BY <1>4, <2>2, <2>3, <2>5, EditWrites, UseKeeps
<1>5. ASSUME NEW r \in Request,
             Load(r) \/ NotFound(r) \/ RenameToNull(r) \/ Read(r) \/ UseFails(r)
      PROVE  AssetInv'
  <2>1. rows' = rows /\ files' = files /\ make' = make /\ faults' \in 0..MaxFaults
        BY <1>5, <1>t, FaultsAssumption DEF Load, NotFound, RenameToNull, Read, UseFails, Fault, Types
  <2>2. use[r].asset \in Asset /\ rows[use[r].asset] \in Row
        BY <1>t DEF Types, Use
  <2>3. /\ use' \in [Request -> Use] /\ \A q \in Request \ {r} : use'[q] = use[q]
        /\ Seen(r)'
    <3>1. CASE Load(r)
          BY <1>t, <2>1, <2>2, <3>1 DEF Load, Found, Types, Use, Seen
    <3>2. CASE NotFound(r) \/ RenameToNull(r) \/ UseFails(r)
      <4>1. PICK place \in {"notfound", "error"} : UseMove(r, place)
            BY <3>2 DEF NotFound, RenameToNull, UseFails
      <4> QED
          BY <1>t, <4>1 DEF UseMove, Types, Use, Seen
    <3>3. CASE Read(r)
      <4>1. use[r].pc = "loaded" /\ files[use[r].asset] = use[r].copy.checksum
            BY <2>2, <3>3 DEF Read, Using, AssetInv, Seen, Stored, NoRow
      <4>2. UseMove(r, "done")
            BY <3>3, <4>1 DEF Read
      <4>3. rows[use[r].asset].present
            BY <4>1 DEF AssetInv, Seen
      <4> QED
          BY <1>t, <2>1, <4>2, <4>3 DEF UseMove, Types, Use, Seen
    <3> QED
        BY <1>5, <3>1, <3>2, <3>3
  <2>4. Types'
        BY <1>t, <2>1, <2>3 DEF Types
  <2> QED
      BY <2>1, <2>3, <2>4, UseKeeps
<1>6. CASE UNCHANGED vars
      BY <1>6 DEF vars, AssetInv, Types, Stored, Seen, TooLarge
<1> QED
    BY <1>1, <1>2, <1>3, <1>4, <1>5, <1>6 DEF Next, Terminating, Edit

(* Every variable keeps its type, and a row in the table has a name.       *)
THEOREM AssetTypes == Spec => []TypeOK
<1>1. AssetInv => TypeOK
      BY DEF AssetInv, Types, Stored, TypeOK, Make, Use
<1> QED
    BY InitAsset, NextAsset, <1>1, PTL DEF Spec

(* A row has its whole file and the checksum of it: no reader of a row     *)
(* misses the file, even when the asset is deleted in between.             *)
THEOREM RowsWithFiles == Spec => []RowsHaveTheirFile
<1>1. AssetInv => RowsHaveTheirFile
  <2> SUFFICES ASSUME AssetInv PROVE RowsHaveTheirFile
      OBVIOUS
  <2>1. ASSUME NEW a \in Asset, rows[a].present
        PROVE  files[a] \in Whole /\ rows[a].checksum = files[a] /\ ~TooLarge(a)
        BY <2>1 DEF AssetInv, Types, Make, Stored, NoRow
  <2>2. \A r \in Request : ~Using(r, "missing")
        BY DEF AssetInv, Seen, Using
  <2> QED
      BY <2>1, <2>2 DEF RowsHaveTheirFile
<1> QED
    BY InitAsset, NextAsset, <1>1, PTL DEF Spec

(* A file without a row is being written, or a fault left it behind.       *)
THEOREM OrphansByFault == Spec => []OrphansOnlyByFault
<1>1. AssetInv => OrphansOnlyByFault
      BY DEF AssetInv, Types, Make, Stored, OrphansOnlyByFault, Making
<1> QED
    BY InitAsset, NextAsset, <1>1, PTL DEF Spec

(* Edits that overlap do not undo each other.                              *)
THEOREM EditsKept == Spec => EditsAreKept
<1>1. ASSUME AssetInv, [Next]_vars, NEW a \in Asset
      PROVE  /\ rows[a].deleted => rows'[a].deleted
             /\ rows[a].is_intermediate => rows'[a].is_intermediate
             /\ rows[a].present /\ rows'[a].name # rows[a].name =>
                  \E r \in Request : Renames(r) /\ use[r].asset = a /\ rows'[a].name = use[r].name
  <2>1. CASE rows'[a] = rows[a]
        BY <2>1
  <2>2. ASSUME NEW b \in Asset, Register(b), rows'[a] # rows[a]
        PROVE  ~rows[a].deleted /\ ~rows[a].is_intermediate /\ ~rows[a].present
    <3>1. a = b
          BY <1>1, <2>2 DEF Register, AssetInv, Types
    <3>2. rows[a] = NoRow
          BY <1>1, <2>2, <3>1 DEF Register, Making, AssetInv, Stored
    <3> QED
        BY <3>2 DEF NoRow
  <2>3. ASSUME NEW r \in Request, Edit(r), rows'[a] # rows[a]
        PROVE  /\ rows[a].deleted => rows'[a].deleted
               /\ rows[a].is_intermediate => rows'[a].is_intermediate
               /\ rows'[a].name # rows[a].name =>
                     Renames(r) /\ use[r].asset = a /\ rows'[a].name = use[r].name
    <3>1. use'[r].pc = "done"
          BY <1>1, <2>3, EditWrites DEF AssetInv, Types, Use
    <3> QED
        BY <1>1, <2>3, <3>1, EditWrites DEF Renames, Using
  <2>4. ASSUME rows' # rows
        PROVE  \/ \E b \in Asset : Register(b)
               \/ \E r \in Request : Edit(r)
        BY <1>1, <2>4 DEF Next, Terminating, vars, Refuse, Open, Save, Reject, MakeFails, Load,
                          NotFound, RenameToNull, Read, UseFails, Edit
  <2> QED
      BY <2>1, <2>2, <2>3, <2>4
<1>2. AssetInv /\ [Next]_vars => [
        \A a \in Asset :
         /\ rows[a].deleted => rows'[a].deleted
         /\ rows[a].is_intermediate => rows'[a].is_intermediate
         /\ rows[a].present /\ rows'[a].name # rows[a].name =>
              \E r \in Request : Renames(r) /\ use[r].asset = a /\ rows'[a].name = use[r].name]_vars
      BY <1>1
<1> QED
    BY InitAsset, NextAsset, <1>2, PTL DEF Spec, EditsAreKept

-----------------------------------------------------------------------------
(* The assets as AssetStore has them.                                      *)
store == [a \in Asset |-> Published(a)]
asked == [r \in Request |-> [kind |-> use[r].kind, asset |-> use[r].asset,
                             name |-> use[r].name, told |-> Told(r)]]

(* While nothing is published or edited, the assets are what they were.    *)
LEMMA StoreStays ==
    ASSUME AssetInv, rows' = rows, \A a \in Asset : rows[a].present => files'[a] = files[a]
    PROVE  /\ store' = store
           /\ \A r \in Request : use'[r] = use[r] => Told(r)' = Told(r)
<1>1. ASSUME NEW a \in Asset PROVE Published(a)' = Published(a)
      BY DEF Published
<1>2. ASSUME NEW r \in Request, use'[r] = use[r] PROVE Told(r)' = Told(r)
  <2>1. use[r].asset \in Asset /\ (use[r].pc = "done" => rows[use[r].asset].present)
        BY DEF AssetInv, Types, Use, Seen
  <2> QED
      BY <1>2, <2>1 DEF Told
<1> QED
    BY <1>1, <1>2 DEF store

(* The making of an asset is nothing to see until its row is there.        *)
LEMMA MakingIsUnseen ==
    ASSUME AssetInv, NEW a \in Asset,
           Refuse(a) \/ Open(a) \/ Save(a) \/ Reject(a) \/ MakeFails(a)
    PROVE  UNCHANGED <<store, asked>>
<1>1. rows' = rows /\ use' = use /\ make[a].pc # "made"
      /\ \A b \in Asset \ {a} : files'[b] = files[b]
      BY DEF Refuse, Open, Save, Reject, MakeFails, Making, AssetInv, Types
<1>2. ~rows[a].present
      BY <1>1 DEF AssetInv, Stored, NoRow
<1>3. store' = store /\ \A r \in Request : Told(r)' = Told(r)
      BY <1>1, <1>2, StoreStays
<1> QED
    BY <1>1, <1>3 DEF asked

(* The row makes it an asset, whole.                                       *)
LEMMA RegisterPublishes ==
    ASSUME AssetInv, NEW a \in Asset, Register(a)
    PROVE  Store!Publish(a)
<1>1. /\ make[a].pc = "saved" /\ ~TooLarge(a) /\ UNCHANGED <<files, use>>
      /\ rows' = [rows EXCEPT ![a] = [NoRow EXCEPT
             !.present = TRUE, !.name = make[a].name, !.checksum = files[a]]]
      BY DEF Register, Making
<1>2. rows[a] = NoRow /\ files[a] \in Whole /\ make[a].name \in Name
      BY <1>1 DEF AssetInv, Stored, Types, Make
<1>3. Published(a) = Store!Nothing
      BY <1>2 DEF Published, Store!Nothing, Store!NoName, NoRow, Null
<1>4. Published(a)' = [content |-> files[a], name |-> make[a].name,
                       deleted |-> FALSE, is_intermediate |-> FALSE]
      BY <1>1 DEF Published, NoRow, AssetInv, Types
<1>5. \A b \in Asset \ {a} : Published(b)' = Published(b)
      BY <1>1 DEF Published, AssetInv, Types
<1>6. store' = [store EXCEPT ![a] = [content |-> files[a], name |-> make[a].name,
                                     deleted |-> FALSE, is_intermediate |-> FALSE]]
      BY <1>4, <1>5 DEF store
<1>7. asked' = asked
      BY <1>1 DEF asked, Told
<1> QED
    BY <1>2, <1>3, <1>6, <1>7 DEF Store!Publish, store, asked

(* A request that moves on is told something and no other one is.          *)
LEMMA UseTells ==
    ASSUME AssetInv, NEW r \in Request, NEW told, Told(r)' = told,
           use'[r].kind = use[r].kind, use'[r].asset = use[r].asset, use'[r].name = use[r].name,
           \A q \in Request \ {r} : use'[q] = use[q] /\ Told(q)' = Told(q)
    PROVE  Store!Tell(r, Told(r), told)
<1>1. asked' = [asked EXCEPT ![r].told = told]
      BY DEF asked
<1>2. asked[r].told = Told(r)
      BY DEF asked
<1> QED
    BY <1>1, <1>2 DEF Store!Tell, asked


(* What a request finds when it looks an asset up.                         *)
LEMMA LookupFinds ==
    ASSUME AssetInv, NEW r \in Request, Load(r) \/ NotFound(r)
    PROVE  Store!Find(r) \/ Store!Miss(r)
<1> DEFINE a == use[r].asset
<1>1. a \in Asset /\ rows[a] \in Row /\ Using(r, "idle") /\ UNCHANGED <<rows, files>>
      /\ (rows[a].present <=> make[a].pc = "made") /\ use \in [Request -> Use]
      BY DEF Load, NotFound, AssetInv, Types, Use, Stored, NoRow
<1>2. store' = store /\ \A q \in Request : use'[q] = use[q] => Told(q)' = Told(q)
      BY <1>1, StoreStays
<1>3. store[a] = Published(a) /\ asked[r].asset = a /\ asked[r].kind = use[r].kind
      BY <1>1 DEF store, asked
<1>4. Published(a) # Store!Nothing <=> rows[a].present
  <2>1. CASE rows[a].present
    <3>1. files[a] \in Whole
          BY <1>1, <2>1 DEF AssetInv, Stored, Types, Make
    <3>2. Published(a).content # "none" /\ Store!Nothing.content = "none"
          BY <2>1, <3>1 DEF Published, Whole, Store!Nothing
    <3> QED
        BY <2>1, <3>2
  <2>2. CASE ~rows[a].present
    <3>1. rows[a] = NoRow
          BY <1>1, <2>2 DEF AssetInv, Stored
    <3> QED
        BY <2>2, <3>1 DEF Published, NoRow, Null, Store!Nothing, Store!NoName
  <2> QED
      BY <2>1, <2>2
<1>5. Store!Visible(r) <=> Found(r)
      BY <1>1, <1>3, <1>4 DEF Store!Visible, Store!Wanted, Found, Published, store, asked
<1>6. Told(r) = "nothing"
      BY <1>1 DEF Told, Using
<1>7. CASE Load(r)
  <2>1. Told(r)' = "found" /\ use'[r].kind = use[r].kind /\ use'[r].asset = use[r].asset
        /\ use'[r].name = use[r].name /\ \A q \in Request \ {r} : use'[q] = use[q]
        BY <1>1, <1>7 DEF Load, Told, Use
  <2>2. Store!Tell(r, "nothing", "found")
        BY <1>2, <1>6, <2>1, UseTells
  <2> QED
      BY <1>2, <1>5, <1>7, <2>2 DEF Store!Find, Load, store
<1>8. CASE NotFound(r)
  <2>1. Told(r)' = "missed" /\ use'[r].kind = use[r].kind /\ use'[r].asset = use[r].asset
        /\ use'[r].name = use[r].name /\ \A q \in Request \ {r} : use'[q] = use[q]
        BY <1>1, <1>8 DEF NotFound, UseMove, Told, Use
  <2>2. Store!Tell(r, "nothing", "missed")
        BY <1>2, <1>6, <2>1, UseTells
  <2> QED
      BY <1>2, <1>5, <1>8, <2>2 DEF Store!Miss, NotFound, store
<1> QED
    BY <1>7, <1>8

(* A request that fails changes nothing, and a reader is told the content. *)
LEMMA ReadTells ==
    ASSUME AssetInv, NEW r \in Request, Read(r) \/ RenameToNull(r) \/ UseFails(r)
    PROVE  Store!Read(r) \/ Store!Fail(r)
<1> DEFINE a == use[r].asset
<1>1. a \in Asset /\ Using(r, "loaded") /\ UNCHANGED <<rows, files>> /\ use \in [Request -> Use]
      BY DEF Read, RenameToNull, UseFails, AssetInv, Types, Use
<1>2. store' = store /\ \A q \in Request : use'[q] = use[q] => Told(q)' = Told(q)
      BY <1>1, StoreStays
<1>3. Told(r) = "found"
      BY <1>1 DEF Told, Using
<1>4. CASE Read(r)
  <2>1. rows[a].present /\ files[a] = use[r].copy.checksum
        BY <1>1 DEF Using, AssetInv, Seen, Stored, NoRow
  <2>2. UseMove(r, "done") /\ use[r].kind = "read"
        BY <1>4, <2>1 DEF Read
  <2> PICK content : content = files[a]
      OBVIOUS
  <2>3. Told(r)' = content /\ use'[r].kind = use[r].kind /\ use'[r].asset = use[r].asset
        /\ use'[r].name = use[r].name /\ \A q \in Request \ {r} : use'[q] = use[q]
        BY <1>1, <2>2 DEF UseMove, Told, Use
  <2>4. Store!Tell(r, "found", content)
        BY <1>2, <1>3, <2>3, UseTells
  <2>5. Published(a).content = content
        BY <2>1 DEF Published
  <2>6. Store!Wanted(r) = Published(a) /\ asked[r].kind = "read"
        BY <1>1, <2>2 DEF Store!Wanted, store, asked
  <2> QED
      BY <1>2, <2>4, <2>5, <2>6 DEF Store!Read, Store!Tell, store, asked
<1>5. CASE RenameToNull(r) \/ UseFails(r)
  <2>1. UseMove(r, "error")
        BY <1>5 DEF RenameToNull, UseFails
  <2>2. Told(r)' = "failed" /\ use'[r].kind = use[r].kind /\ use'[r].asset = use[r].asset
        /\ use'[r].name = use[r].name /\ \A q \in Request \ {r} : use'[q] = use[q]
        BY <1>1, <2>1 DEF UseMove, Told, Use
  <2>3. Store!Tell(r, "found", "failed")
        BY <1>2, <1>3, <2>2, UseTells
  <2> QED
      BY <1>2, <2>3 DEF Store!Fail, store
<1> QED
    BY <1>4, <1>5

(* An edit by the word of an old copy is an edit of the asset as it is.    *)
LEMMA EditEdits ==
    ASSUME AssetInv, NEW r \in Request, Edit(r)
    PROVE  Store!Rename(r) \/ Store!Delete(r) \/ Store!Flag(r)
<1> DEFINE a == use[r].asset
<1>1. /\ a \in Asset /\ rows[a] \in Row /\ rows[a].present /\ use \in [Request -> Use]
      /\ rows \in [Asset -> Row]
      /\ use[r].pc = "loaded" /\ use' = [use EXCEPT ![r].pc = "done"]
      /\ files' = files /\ use[r].kind # "read"
      BY EditWrites DEF AssetInv, Types, Use, Seen, Edit, Rename, SoftDelete, Flag
<1>2. \A q \in Request \ {r} : use'[q] = use[q] /\ Told(q)' = Told(q)
      BY <1>1 DEF Told
<1>3. Told(r) = "found" /\ Told(r)' = "done"
      BY <1>1 DEF Told, Use
<1>4. Store!Tell(r, "found", "done")
  <2>1. use'[r].kind = use[r].kind /\ use'[r].asset = a /\ use'[r].name = use[r].name
        BY <1>1 DEF Use
  <2> QED
      BY <1>2, <1>3, <2>1, UseTells
<1>5. asked[r].asset = a /\ asked[r].kind = use[r].kind /\ asked[r].name = use[r].name
      /\ store[a] = Published(a)
      BY <1>1 DEF asked, store
<1>6. \A b \in Asset \ {a} : Published(b)' = Published(b)
      BY EditWrites, <1>1 DEF Published
<1>7. CASE Rename(r)
  <2> DEFINE name == Written(rows[a].name, use[r].copy.name, use[r].name)
  <2>1. rows' = [rows EXCEPT ![a].name = name] /\ use[r].kind = "rename" /\ use[r].name # Null
        BY <1>1, <1>7 DEF Rename
  <2>2. name \in {use[r].name, Published(a).name}
        BY DEF Written, Published
  <2> HIDE DEF name
  <2>3. Published(a)' = [Published(a) EXCEPT !.name = name]
        BY <1>1, <2>1 DEF Published, Row
  <2>4. store' = [store EXCEPT ![a].name = name]
        BY <1>1, <1>6, <2>3 DEF store
  <2> QED
      BY <1>4, <1>5, <2>1, <2>2, <2>4 DEF Store!Rename, Store!Wanted, Store!NoName, Null, store, asked
<1>8. CASE SoftDelete(r)
  <2> DEFINE yes == TRUE
  <2>1. rows' = [rows EXCEPT ![a].deleted = yes] /\ use[r].kind = "delete"
        BY <1>8 DEF SoftDelete
  <2> HIDE DEF yes
  <2>2. Published(a)' = [Published(a) EXCEPT !.deleted = yes]
        BY <1>1, <2>1 DEF Published, Row
  <2>3. store' = [store EXCEPT ![a].deleted = yes]
        BY <1>1, <1>6, <2>2 DEF store
  <2> QED
      BY <1>4, <1>5, <2>1, <2>3 DEF Store!Delete, store, asked, yes
<1>9. CASE Flag(r)
  <2> DEFINE yes == Written(rows[a].is_intermediate, use[r].copy.is_intermediate, TRUE)
  <2>1. rows' = [rows EXCEPT ![a].is_intermediate = yes] /\ use[r].kind = "flag"
        BY <1>9 DEF Flag
  <2>2. yes = TRUE
        BY <1>1 DEF Written, AssetInv, Seen, Row
  <2> HIDE DEF yes
  <2>3. Published(a)' = [Published(a) EXCEPT !.is_intermediate = yes]
        BY <1>1, <2>1 DEF Published, Row
  <2>4. store' = [store EXCEPT ![a].is_intermediate = yes]
        BY <1>1, <1>6, <2>3 DEF store
  <2> QED
      BY <1>4, <1>5, <2>1, <2>2, <2>4 DEF Store!Flag, store, asked
<1> QED
    BY <1>7, <1>8, <1>9 DEF Edit

(* Uploads, outputs and requests come to single steps on whole assets.     *)
THEOREM ImplementsStore == Spec => StoreSpec
<1>1. Init => Store!Init
  <2> SUFFICES ASSUME Init PROVE Store!Init
      OBVIOUS
  <2>1. \A a \in Asset : Published(a) = Store!Nothing
        BY DEF Init, Published, NoRow, Null, Store!Nothing, Store!NoName
  <2>2. \A r \in Request : /\ use[r].kind \in Kinds /\ use[r].asset \in Asset
                           /\ use[r].name \in Name \cup {Null} /\ Told(r) = "nothing"
        BY DEF Init, Told
  <2> QED
      BY <2>1, <2>2 DEF Store!Init, Store!NoName, Kinds, Null
<1>2. AssetInv /\ [Next]_vars => [Store!Next]_<<store, asked>>
  <2> SUFFICES ASSUME AssetInv, [Next]_vars PROVE Store!Next \/ UNCHANGED <<store, asked>>
      OBVIOUS
  <2>1. ASSUME NEW a \in Asset,
               Refuse(a) \/ Open(a) \/ Save(a) \/ Reject(a) \/ MakeFails(a)
        PROVE  UNCHANGED <<store, asked>>
        BY <2>1, MakingIsUnseen
  <2>2. ASSUME NEW a \in Asset, Register(a) PROVE Store!Next
        BY <2>2, RegisterPublishes DEF Store!Next
  <2>3. ASSUME NEW r \in Request, Load(r) \/ NotFound(r) PROVE Store!Next
        BY <2>3, LookupFinds DEF Store!Next
  <2>4. ASSUME NEW r \in Request, Read(r) \/ RenameToNull(r) \/ UseFails(r) PROVE Store!Next
        BY <2>4, ReadTells DEF Store!Next
  <2>5. ASSUME NEW r \in Request, Edit(r) PROVE Store!Next
        BY <2>5, EditEdits DEF Store!Next
  <2>6. CASE UNCHANGED vars
        BY <2>6 DEF vars, store, asked, Published, Told
  <2> QED
      BY <2>1, <2>2, <2>3, <2>4, <2>5, <2>6 DEF Next, Terminating, Edit
<1>3. AssetInv /\ [Next]_vars =>
          [Store!Next]_<<[a \in Asset |-> Published(a)],
                         [r \in Request |-> [kind |-> use[r].kind, asset |-> use[r].asset,
                                             name |-> use[r].name, told |-> Told(r)]]>>
      BY <1>2 DEF store, asked
<1> QED
    BY InitAsset, NextAsset, <1>1, <1>3, PTL DEF Spec, StoreSpec, Store!Spec

=============================================================================
