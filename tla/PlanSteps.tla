----------------------------- MODULE PlanSteps -----------------------------
(***************************************************************************)
(* What becomes of the steps of one agent plan: the validation that lets a *)
(* proposed plan through (agent/planner.py), and the way the executor      *)
(* turns each step into the input of a job, feeds outputs to later steps   *)
(* and sorts them into results and intermediates (agent/executor.py).  A   *)
(* step's job is created if create_job takes it, and needs what its        *)
(* handler asks for (Capabilities).  AgentPlans takes the outcome of this  *)
(* for granted and has what happens to the plan's row instead.             *)
(*                                                                         *)
(* A step refers to an asset or, as '@id', to the output of an earlier     *)
(* step; the output of step k is <<"out", k>>.                             *)
(***************************************************************************)
EXTENDS Naturals, Capabilities, MockPlanner

CONSTANTS
    Literal,    \* assets a plan may name
    Name,       \* what may follow the '@' of a reference
    MediaOf,    \* the media types of those that exist
    Sessions,   \* scopes and settings that plans are proposed under
    Plans       \* the plans a language model may propose

Value == ({"asset"} \X Literal) \cup ({"step"} \X Name)
Asset(id) == <<"asset", id>>

(* The empty string: no asset, but an item of a list may be one.  A step   *)
(* whose `asset` is empty has none.                                        *)
Blank == Asset("")

Elements(s) == {s[i] : i \in DOMAIN s}

(* A parameter with an empty string is one of the plain ones, `given`.     *)
IsStep(step) ==
    /\ step.asset \in (Value \ {Blank}) \cup {None}
    /\ step.assets \in Seq(Value)
    /\ step.listed \in Seq(Value) \cup {NoList}
    /\ Elements(step.named) \subseteq Value \ {Blank}

IsPlan(p) == p \in Seq(Elements(p)) /\ \A k \in DOMAIN p : IsStep(p[k])

ASSUME NameAssumption == {"title", "slides", "at"} \subseteq Name
ASSUME MediaAssumption == /\ DOMAIN MediaOf \subseteq Literal \ {""}
                          /\ \A a \in DOMAIN MediaOf : MediaOf[a] \in Media

(* `scope` lists the session's assets of each media type, in their order.  *)
ASSUME SessionsAssumption ==
    \A s \in Sessions :
        /\ s \in [scope : [Media -> Seq(DOMAIN MediaOf)], deterministic_only : BOOLEAN,
                  mock : BOOLEAN]
        /\ \A media \in Media : \A a \in Elements(s.scope[media]) : MediaOf[a] = media
ASSUME PlansAssumption == \A p \in Plans : IsPlan(p)

VARIABLES
    session,  \* the session the plan is proposed in
    plan,     \* the proposed plan
    phase,    \* how far validation or execution has come
    runs,     \* the steps that were run: what each used and produced
    finals,   \* plan_row.result_asset_ids
    flagged   \* assets with is_intermediate set

vars == <<session, plan, phase, runs, finals, flagged>>

(* The assets of one media type, in the order of the scope.                *)
InScope(s, media) == [i \in DOMAIN s.scope[media] |-> Asset(s.scope[media][i])]

Scope == UNION {Elements(InScope(session, media)) : media \in Media}

Proposed(s) ==
    IF s.mock
    THEN {Propose(words, InScope(s, "image"), InScope(s, "video"), InScope(s, "audio"))
            : words \in SUBSET Word} \ {Clarification}
    ELSE Plans

Init ==
    /\ session \in Sessions
    /\ plan \in Proposed(session)
    /\ phase = "proposed"
    /\ runs = <<>>
    /\ finals = {} /\ flagged = {}

IsRef(v) == v[1] = "step"

-----------------------------------------------------------------------------
(* validate_plan.                                                          *)

(* What the schema is checked against: a list among the parameters wins.   *)
EffectiveList(step) ==
    IF step.listed # NoList THEN step.listed
    ELSE IF step.assets # <<>> THEN step.assets ELSE NoList

SatisfiesSchema(step) ==
    CAPABILITIES_BY_ID[step.capability_id].required \subseteq
        step.given \cup DOMAIN step.named
        \cup (IF EffectiveList(step) # NoList THEN {"asset_ids"} ELSE {})

(* Only strings are looked at: not the items of a list among the params.   *)
Candidates(step) == {step.asset} \cup Elements(step.named) \cup Elements(step.assets)
RefsInStep(step) == {v[2] : v \in {w \in Candidates(step) : IsRef(w)}}

(* Mutant: the items of step.assets are not looked up in the scope.        *)
Literals_AssetOnly(step) == {v \in {step.asset} : v \notin {None, Blank} /\ ~IsRef(v)}

Literals(step) ==
    {v \in {step.asset} \cup Elements(step.assets) : v \notin {None, Blank} /\ ~IsRef(v)}

Seen(p, k) == {p[i].id : i \in 1..(k - 1)}

MediaMatches(step) ==
    LET supported == CAPABILITIES_BY_ID[step.capability_id].media IN
    step.asset \in Scope /\ supported # {} => MediaOf[step.asset[2]] \in supported

(* Mutant: a step may refer to itself.                                     *)
StepValid_SeesItself(p, k) ==
    /\ p[k].capability_id \in Offered(session.deterministic_only)
    /\ SatisfiesSchema(p[k])
    /\ RefsInStep(p[k]) \subseteq Seen(p, k + 1)
    /\ p[k].depends_on \subseteq Seen(p, k)
    /\ Literals(p[k]) \subseteq Scope
    /\ MediaMatches(p[k])

StepValid(p, k) ==
    /\ p[k].capability_id \in Offered(session.deterministic_only)
    /\ SatisfiesSchema(p[k])
    /\ RefsInStep(p[k]) \subseteq Seen(p, k)
    /\ p[k].depends_on \subseteq Seen(p, k)
    /\ Literals(p[k]) \subseteq Scope
    /\ MediaMatches(p[k])

Valid(p) == p # <<>> /\ \A k \in DOMAIN p : StepValid(p, k)

Validate ==
    /\ phase = "proposed"
    /\ phase' = IF Valid(plan) THEN "running" ELSE "rejected"
    /\ UNCHANGED <<session, plan, runs, finals, flagged>>

-----------------------------------------------------------------------------
(* execute_plan.  `outputs` is keyed by step id: a later step of the same  *)
(* id takes the place of an earlier one.                                   *)
Upcoming == Len(runs) + 1

Producers(s) == {k \in DOMAIN runs : plan[k].id = s}

OutputOf(s) ==
    IF Producers(s) = {} THEN None
    ELSE runs[CHOOSE k \in Producers(s) : \A i \in Producers(s) : i <= k].out

Resolve(v) == IF IsRef(v) THEN OutputOf(v[2]) ELSE v

(* _build_job_input takes the list from step.assets, or else from the      *)
(* parameters.                                                             *)
RawList(step) ==
    IF step.assets # <<>> THEN step.assets
    ELSE IF step.listed # NoList THEN step.listed ELSE <<>>

(* job.asset_id, then the list: the input files in order.                  *)
InputFiles(step) == (IF step.asset = None THEN <<>> ELSE <<step.asset>>) \o RawList(step)

Inputs(step) == Elements(InputFiles(step)) \cup Elements(step.named)
Unresolved(step) == {v \in Inputs(step) : Resolve(v) = None}

MediaTypeOf(a) == IF a[1] = "out" THEN runs[a[2]].media ELSE MediaOf[a[2]]

(* create_job looks at the primary asset's media type only.                *)
Takes(step) ==
    step.asset # None =>
        MediaTypeOf(Resolve(step.asset)) \in CAPABILITIES_BY_ID[step.capability_id].media

MissingParams(step) ==
    LET handler == Handler(step.capability_id) IN
    (handler.params \ (step.given \cup DOMAIN step.named))
        \cup (handler.named \ DOMAIN step.named)

Missing(step) ==
    \/ Len(InputFiles(step)) < Handler(step.capability_id).paths
    \/ MissingParams(step) # {}

(* _build_job_context: what a list or a parameter names need not exist.    *)
Exist(step) == \A v \in Inputs(step) : IsRef(v) \/ v[2] \in DOMAIN MediaOf

MakesMedia(step) ==
    Makes(step.capability_id,
          IF InputFiles(step) = <<>> THEN "unknown"
          ELSE MediaTypeOf(Resolve(Head(InputFiles(step)))))

(* The step whose turn it is, all its references resolved.                 *)
Ready == phase = "running" /\ Upcoming \in DOMAIN plan /\ Unresolved(plan[Upcoming]) = {}

(* A step's job may be cancelled, and then has no output.                  *)
RunStep ==
    LET step == plan[Upcoming] IN
    /\ Ready
    /\ Takes(step) /\ Exist(step) /\ ~Missing(step)
    /\ \E media \in MakesMedia(step) \cup {"none"} :
         runs' = Append(runs, [used |-> {Resolve(v) : v \in Inputs(step)}, media |-> media,
                               out |-> IF media = "none" THEN None ELSE <<"out", Upcoming>>])
    /\ UNCHANGED <<session, plan, phase, finals, flagged>>

Stop(why) == phase' = why /\ UNCHANGED <<session, plan, runs, finals, flagged>>

(* "Step ... produced no asset to reference"                               *)
RunUnresolved ==
    /\ phase = "running" /\ Upcoming \in DOMAIN plan
    /\ Unresolved(plan[Upcoming]) # {}
    /\ Stop("unresolved")

(* "Capability ... does not support ... assets"                            *)
RunRefused == Ready /\ ~Takes(plan[Upcoming]) /\ Stop("refused")

(* The handler raises for want of an input file or a parameter.            *)
RunLacking ==
    LET step == plan[Upcoming] IN
    Ready /\ Takes(step) /\ Exist(step) /\ Missing(step) /\ Stop("lacking")

(* The job fails for any other reason.                                     *)
RunFails == Ready /\ Takes(plan[Upcoming]) /\ Stop("failed")

(* Mutant: references in parameters are overlooked.                        *)
Consumed_NoParams == {v[2] : v \in {w \in UNION {{plan[k].asset} \cup Elements(plan[k].assets)
                                                  : k \in DOMAIN plan} : IsRef(w)}}

Consumed == UNION {RefsInStep(plan[k]) : k \in DOMAIN plan}

Outs(steps) == {runs[k].out : k \in steps} \ {None}

Finish ==
    /\ phase = "running" /\ Upcoming \notin DOMAIN plan
    /\ phase' = "succeeded"
    /\ finals' = Outs({k \in DOMAIN runs : plan[k].id \notin Consumed})
    /\ flagged' = Outs({k \in DOMAIN runs : plan[k].id \in Consumed})
    /\ UNCHANGED <<session, plan, runs>>

Ends == {"rejected", "unresolved", "refused", "lacking", "failed", "succeeded"}

Over == phase \in Ends /\ UNCHANGED vars

Next ==
    \/ Validate
    \/ RunStep \/ RunUnresolved \/ RunRefused \/ RunLacking \/ RunFails
    \/ Finish \/ Over

Spec == Init /\ [][Next]_vars

-----------------------------------------------------------------------------
(* The plan puts its assets where the validation looks for them all: its   *)
(* list is step.assets, and a parameter names no asset but one in scope.   *)
Plainly ==
    \A k \in DOMAIN plan :
        /\ plan[k].assets = <<>> => Elements(plan[k].listed) \subseteq {None}
        /\ \A v \in Elements(plan[k].named) : IsRef(v) \/ v \in Scope

UniqueIds == \A i, k \in DOMAIN plan : plan[i].id = plan[k].id => i = k

OutputMissing(step) ==
    \A v \in Unresolved(step) : \E k \in DOMAIN runs : plan[k].id = v[2] /\ runs[k].out = None

(* "checks a Plan is executable" (planner.py): what still stops an         *)
(* accepted plan.  It runs out of assets only where a step that did run    *)
(* made none, duplicate ids included; create_job refuses a step's asset    *)
(* only when an earlier step made it; and what schemas and handlers        *)
(* require is the same, so that a handler misses input files or an asset   *)
(* that a parameter has as an empty string, and never anything else.       *)
AcceptedPlansRun ==
    /\ Plainly /\ phase = "unresolved" => OutputMissing(plan[Upcoming])
    /\ phase = "refused" => IsRef(plan[Upcoming].asset)
    /\ phase = "lacking" =>
          LET step == plan[Upcoming] IN
          MissingParams(step) \subseteq Handler(step.capability_id).named \cap step.given

(* What the mock planner proposes is accepted, unless the title it found   *)
(* starts with '@' and is taken for a reference, and then runs: it stops   *)
(* only where a job ended without output or there is no image to show.     *)
MockPlansWork ==
    session.mock =>
        /\ phase = "rejected" => plan[1].id = "title" /\ "text" \in DOMAIN plan[1].named
        /\ phase # "refused"
        /\ phase = "unresolved" => OutputMissing(plan[Upcoming])
        /\ phase = "lacking" => plan[Upcoming].id = "slides" /\ InScope(session, "image") = <<>>

(* Every input of a job of such a plan is in the session's scope or was    *)
(* made by an earlier job of the plan.                                     *)
InputsAreKnown ==
    Plainly => \A k \in DOMAIN runs :
        runs[k].used \subseteq Scope \cup {runs[i].out : i \in 1..(k - 1)}

(* The results of such a plan are exactly the outputs that none of its     *)
(* jobs was given, whether the reference was the step's asset, in its      *)
(* list or in a parameter, and the others are flagged as intermediate.     *)
ResultsAreUnused ==
    Plainly /\ UniqueIds /\ phase = "succeeded" =>
        LET used == UNION {runs[k].used : k \in DOMAIN runs} IN
        /\ finals = Outs(DOMAIN runs) \ used
        /\ flagged = Outs(DOMAIN runs) \cap used
=============================================================================
