------------------------------- MODULE Assets -------------------------------
(***************************************************************************)
(* The assets of one project: rows of table `assets` and their files in    *)
(* the storage directory (services/assets.py, services/storage.py).  Users *)
(* upload, rename, delete and download them through the API, while the     *)
(* worker registers the outputs of jobs, reads inputs, and flags outputs   *)
(* of plans as intermediate.                                               *)
(*                                                                         *)
(* Nothing ties a row to its file but the order in which the two are made. *)
(* The guard of a request reads the row, and the service that edits it     *)
(* gets the same copy from the session, however long the Catalogue took in *)
(* between; its UPDATE writes the columns it has changed.                  *)
(***************************************************************************)
EXTENDS Naturals

CONSTANTS
    Asset,      \* the ids of the assets of one behaviour
    Request,    \* requests and worker steps that use an asset
    Name,       \* names of assets
    Faults,     \* what may go wrong
    MaxFaults   \* bound: how often

ASSUME FaultsAssumption == Faults \subseteq {"disk", "database", "crash"} /\ MaxFaults \in Nat

Source == {"upload", "output"}
Kinds == {"rename", "delete", "flag", "read"}
Null == "null"

ASSUME NameAssumption == Null \notin Name

(* What is in a file; the last two are complete, below and above the limit *)
(* on uploads.                                                             *)
Content == {"none", "partial", "small", "large"}
Whole == {"small", "large"}

Row == [present : BOOLEAN, deleted : BOOLEAN, is_intermediate : BOOLEAN,
        name : Name \cup {Null}, checksum : Content]
NoRow == [present |-> FALSE, deleted |-> FALSE, is_intermediate |-> FALSE,
          name |-> Null, checksum |-> "none"]

VARIABLES
    rows,    \* table assets
    files,   \* the file of each asset in the storage directory
    make,    \* the upload or the job output that makes each asset
    use,     \* the requests and worker steps that use one
    faults   \* faults so far

vars == <<rows, files, make, use, faults>>

Init ==
    /\ rows = [a \in Asset |-> NoRow]
    /\ files = [a \in Asset |-> "none"]
    /\ make \in [Asset -> [pc : {"idle"}, source : Source, content : Whole, name : Name]]
    /\ use \in [Request -> [pc : {"idle"}, kind : Kinds, asset : Asset,
                            name : Name \cup {Null}, copy : {NoRow}]]
    /\ \A r \in Request : use[r].kind # "rename" => use[r].name = Null
    /\ faults = 0

Making(a, places) == make[a].pc \in places
MakeMove(a, place) == make' = [make EXCEPT ![a].pc = place]
Using(r, place) == use[r].pc = place
UseMove(r, place) == use' = [use EXCEPT ![r].pc = place]

(* What an UPDATE leaves in a column: `new` unless the session believes it *)
(* is there already.                                                       *)
Written(column, old, new) == IF new = old THEN column ELSE new

-----------------------------------------------------------------------------
(* create_asset and create_derived_asset.                                  *)

(* The extension of an upload is not allowed, or the project is not there. *)
Refuse(a) ==
    /\ Making(a, {"idle"}) /\ make[a].source = "upload"
    /\ MakeMove(a, "refused")
    /\ UNCHANGED <<rows, files, use, faults>>

(* save_upload opens the file and writes it in pieces ...                  *)
Open(a) ==
    /\ Making(a, {"idle"})
    /\ files' = [files EXCEPT ![a] = "partial"]
    /\ MakeMove(a, "saving")
    /\ UNCHANGED <<rows, use, faults>>

(* ... to the end.                                                         *)
Save(a) ==
    /\ Making(a, {"saving"})
    /\ files' = [files EXCEPT ![a] = make[a].content]
    /\ MakeMove(a, "saved")
    /\ UNCHANGED <<rows, use, faults>>

TooLarge(a) == make[a].source = "upload" /\ make[a].content = "large"

(* Mutant: the file of a rejected upload stays.                            *)
Reject_KeepsFile(a) ==
    /\ Making(a, {"saved"}) /\ TooLarge(a)
    /\ MakeMove(a, "refused")
    /\ UNCHANGED <<rows, files, use, faults>>

(* An upload beyond the limit is written first and then removed.           *)
Reject(a) ==
    /\ Making(a, {"saved"}) /\ TooLarge(a)
    /\ files' = [files EXCEPT ![a] = "none"]
    /\ MakeMove(a, "refused")
    /\ UNCHANGED <<rows, use, faults>>

(* Mutant: the row is committed while the file is being written.           *)
Register_Early(a) ==
    /\ Making(a, {"saving", "saved"}) /\ ~TooLarge(a)
    /\ rows' = [rows EXCEPT ![a] = [NoRow EXCEPT
         !.present = TRUE, !.name = make[a].name, !.checksum = files[a]]]
    /\ MakeMove(a, "made")
    /\ UNCHANGED <<files, use, faults>>

(* The checksum is computed from the file; the row is committed with it.   *)
Register(a) ==
    /\ Making(a, {"saved"}) /\ ~TooLarge(a)
    /\ rows' = [rows EXCEPT ![a] = [NoRow EXCEPT
         !.present = TRUE, !.name = make[a].name, !.checksum = files[a]]]
    /\ MakeMove(a, "made")
    /\ UNCHANGED <<files, use, faults>>

-----------------------------------------------------------------------------
(* Requests.  get_asset: the guard's read (or the worker's).               *)

(* The executor fetches the outputs of a plan deleted or not.              *)
Found(r) ==
    /\ rows[use[r].asset].present
    /\ use[r].kind = "flag" \/ ~rows[use[r].asset].deleted

Load(r) ==
    /\ Using(r, "idle") /\ Found(r)
    /\ use' = [use EXCEPT ![r].pc = "loaded", ![r].copy = rows[use[r].asset]]
    /\ UNCHANGED <<rows, files, make, faults>>

NotFound(r) ==
    /\ Using(r, "idle") /\ ~Found(r)
    /\ UseMove(r, "notfound")
    /\ UNCHANGED <<rows, files, make, faults>>

(* Mutant: every column is written as it was read.                         *)
Rename_AllColumns(r) ==
    /\ Using(r, "loaded") /\ use[r].kind = "rename" /\ use[r].name # Null
    /\ rows' = [rows EXCEPT ![use[r].asset] = [use[r].copy EXCEPT !.name = use[r].name]]
    /\ UseMove(r, "done")
    /\ UNCHANGED <<files, make, faults>>

Rename(r) ==
    /\ Using(r, "loaded") /\ use[r].kind = "rename" /\ use[r].name # Null
    /\ rows' = [rows EXCEPT ![use[r].asset].name =
                    Written(@, use[r].copy.name, use[r].name)]
    /\ UseMove(r, "done")
    /\ UNCHANGED <<files, make, faults>>

(* The schema lets an explicit null through; the column refuses it.        *)
RenameToNull(r) ==
    /\ Using(r, "loaded") /\ use[r].kind = "rename" /\ use[r].name = Null
    /\ UseMove(r, "error")
    /\ UNCHANGED <<rows, files, make, faults>>

(* Mutant: the file goes with the row.                                     *)
SoftDelete_RemovesFile(r) ==
    /\ Using(r, "loaded") /\ use[r].kind = "delete"
    /\ rows' = [rows EXCEPT ![use[r].asset].deleted = TRUE]
    /\ files' = [files EXCEPT ![use[r].asset] = "none"]
    /\ UseMove(r, "done")
    /\ UNCHANGED <<make, faults>>

SoftDelete(r) ==
    /\ Using(r, "loaded") /\ use[r].kind = "delete"
    /\ rows' = [rows EXCEPT ![use[r].asset].deleted = TRUE]
    /\ UseMove(r, "done")
    /\ UNCHANGED <<files, make, faults>>

(* execute_plan marks an output that a later step of the plan has used.    *)
Flag(r) ==
    /\ Using(r, "loaded") /\ use[r].kind = "flag"
    /\ rows' = [rows EXCEPT ![use[r].asset].is_intermediate =
                    Written(@, use[r].copy.is_intermediate, TRUE)]
    /\ UseMove(r, "done")
    /\ UNCHANGED <<files, make, faults>>

(* A download is sent, or a handler opens its input: by the path of the    *)
(* row that was read, some time after it was.                              *)
Read(r) ==
    /\ Using(r, "loaded") /\ use[r].kind = "read"
    /\ UseMove(r, IF files[use[r].asset] = use[r].copy.checksum THEN "done" ELSE "missing")
    /\ UNCHANGED <<rows, files, make, faults>>

-----------------------------------------------------------------------------
Fault(kind) ==
    /\ kind \in Faults /\ faults < MaxFaults
    /\ faults' = faults + 1

(* Writing or reading the file raises, a commit fails, or the process that *)
(* makes the asset dies: what is on disk stays there.                      *)
MakeFails(a) ==
    /\ \/ Fault("disk") /\ Making(a, {"saving", "saved"})
       \/ Fault("database") /\ Making(a, {"saved"}) /\ ~TooLarge(a)
       \/ Fault("crash") /\ Making(a, {"saving", "saved"})
    /\ MakeMove(a, "lost")
    /\ UNCHANGED <<rows, files, use>>

UseFails(r) ==
    /\ Fault("database") \/ Fault("crash")
    /\ Using(r, "loaded")
    /\ UseMove(r, "error")
    /\ UNCHANGED <<rows, files, make>>

-----------------------------------------------------------------------------
Terminating ==
    /\ \A a \in Asset : Making(a, {"refused", "made", "lost"})
    /\ \A r \in Request : use[r].pc \in {"done", "notfound", "missing", "error"}
    /\ UNCHANGED vars

Next ==
    \/ \E a \in Asset : \/ Refuse(a) \/ Open(a) \/ Save(a) \/ Reject(a) \/ Register(a)
                        \/ MakeFails(a)
    \/ \E r \in Request : \/ Load(r) \/ NotFound(r) \/ Rename(r) \/ RenameToNull(r)
                          \/ SoftDelete(r) \/ Flag(r) \/ Read(r) \/ UseFails(r)
    \/ Terminating

Spec == Init /\ [][Next]_vars

-----------------------------------------------------------------------------
(* Every variable has its type, and a row in the table has a name.         *)
TypeOK ==
    /\ rows \in [Asset -> Row] /\ \A a \in Asset : rows[a].present => rows[a].name # Null
    /\ files \in [Asset -> Content]
    /\ make \in [Asset -> [pc : {"idle", "saving", "saved", "refused", "made", "lost"},
                           source : Source, content : Whole, name : Name]]
    /\ use \in [Request -> [pc : {"idle", "loaded", "done", "notfound", "missing", "error"},
                            kind : Kinds, asset : Asset, name : Name \cup {Null},
                            copy : Row]]
    /\ faults \in 0..MaxFaults

(* A row in the table, deleted or not, has its whole file and the checksum *)
(* of it, so that a download or a job that read the row finds the file     *)
(* even when the asset is deleted before it is opened; and no upload       *)
(* beyond the limit gets a row.                                            *)
RowsHaveTheirFile ==
    /\ \A a \in Asset : rows[a].present =>
         /\ files[a] \in Whole /\ rows[a].checksum = files[a]
         /\ ~TooLarge(a)
    /\ \A r \in Request : ~Using(r, "missing")

(* A file nobody can reach is left only by a fault while it was stored.    *)
OrphansOnlyByFault ==
    \A a \in Asset :
        files[a] # "none" /\ ~rows[a].present => Making(a, {"saving", "saved", "lost"})

Renames(r) == use[r].kind = "rename" /\ Using(r, "loaded") /\ Using(r, "done")'

(* Edits that overlap do not undo each other: a deleted asset stays        *)
(* deleted, a flag stays set, and only a rename changes a name.            *)
EditsAreKept ==
    [][\A a \in Asset :
         /\ rows[a].deleted => rows'[a].deleted
         /\ rows[a].is_intermediate => rows'[a].is_intermediate
         /\ rows[a].present /\ rows'[a].name # rows[a].name =>
              \E r \in Request : Renames(r) /\ use[r].asset = a /\ rows'[a].name = use[r].name]_vars

-----------------------------------------------------------------------------
(* An asset is what its row and its file make of it once the row is there, *)
(* and a reader is told what is in the file.                               *)
Published(a) ==
    [content |-> IF rows[a].present THEN files[a] ELSE "none", name |-> rows[a].name,
     deleted |-> rows[a].deleted, is_intermediate |-> rows[a].is_intermediate]

Told(r) ==
    CASE use[r].pc = "idle" -> "nothing"
      [] use[r].pc = "loaded" -> "found"
      [] use[r].pc = "notfound" -> "missed"
      [] use[r].pc = "error" -> "failed"
      [] use[r].pc = "done" /\ use[r].kind = "read" -> files[use[r].asset]
      [] OTHER -> use[r].pc

(* Seen like that, the assets are those of AssetStore: what is done in     *)
(* pieces and by the word of an old copy comes to single steps on whole    *)
(* assets, and an asset that a request has found stays readable.           *)
Store == INSTANCE AssetStore
    WITH Content <- Whole,
         store <- [a \in Asset |-> Published(a)],
         asked <- [r \in Request |-> [kind |-> use[r].kind, asset |-> use[r].asset,
                                       name |-> use[r].name, told |-> Told(r)]]
StoreSpec == Store!Spec
=============================================================================
