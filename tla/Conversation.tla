--------------------------- MODULE Conversation ---------------------------
(***************************************************************************)
(* One agent session (services/agent.py): the transcript in its row, the   *)
(* messages users post to it, the planner's rounds of proposing and        *)
(* repairing (agent/llm.py, propose) and the plans that come of it.        *)
(*                                                                         *)
(* A request reads the transcript first and writes it last, as the whole   *)
(* column; minutes of planning may lie between the two.  The mock planner  *)
(* is the case MaxRetries = 0.                                             *)
(***************************************************************************)
EXTENDS Naturals, Sequences

CONSTANTS
    Asset,       \* the assets the session is created with
    Post,        \* the messages users may post
    MaxRetries,  \* settings.agent_max_repair_retries
    Events,      \* what may go wrong outside the code
    MaxEvents    \* bound: how often

ASSUME RetriesAssumption == MaxRetries \in Nat
ASSUME EventsAssumption == Events \subseteq {"delete", "provider", "lost"} /\ MaxEvents \in Nat

(* What the planner's backend may answer: the first two are not accepted.  *)
Bad == {"unreadable", "invalid plan"}
Good == {"plan", "clarification"}
Answer == Bad \cup Good

Attempt == 0..MaxRetries
Message == [role : {"user"}, post : Post]
           \cup [role : {"assistant"}, post : Post, attempt : Attempt, answer : Answer]
Transcript == Seq(Message)

User(p) == [role |-> "user", post |-> p]
Assistant(p, t, a) == [role |-> "assistant", post |-> p, attempt |-> t, answer |-> a]

VARIABLES
    created,   \* whether the session exists
    messages,  \* agent_sessions.messages
    plans,     \* table agent_plans: the post each proposed plan answers
    live,      \* assets not soft-deleted
    post,      \* the requests that post a message
    events     \* outside events so far

vars == <<created, messages, plans, live, post, events>>

Ended == {"answered", "failed"}

Init ==
    /\ created = FALSE /\ messages = <<>> /\ plans = {} /\ live = Asset
    /\ post = [p \in Post |-> [pc |-> "idle", copy |-> <<>>, attempt |-> 0, new |-> <<>>]]
    /\ events = 0

At(p, place) == post[p].pc = place
Move(p, place) == post' = [post EXCEPT ![p].pc = place]

-----------------------------------------------------------------------------
(* POST /agent/sessions: every asset must be there.                        *)
CreateSession ==
    /\ ~created /\ live = Asset
    /\ created' = TRUE
    /\ UNCHANGED <<messages, plans, live, post, events>>

(* POST /agent/sessions/{id}/messages: post_message loads the session ...  *)
Load(p) ==
    /\ At(p, "idle") /\ created
    /\ post' = [post EXCEPT ![p].pc = "loaded", ![p].copy = messages]
    /\ UNCHANGED <<created, messages, plans, live, events>>

(* ... and the assets of its scope, which must all be there still ...      *)
LoadAssets(p) ==
    /\ At(p, "loaded")
    /\ IF live = Asset
       THEN post' = [post EXCEPT ![p].pc = "asking", ![p].new = <<User(p)>>]
       ELSE Move(p, "failed")
    /\ UNCHANGED <<created, messages, plans, live, events>>

(* ... then the backend is asked.  The transcript is to hold the last      *)
(* answer only, in the place of those that had to be repaired.             *)
Stored(p, a) ==
    LET answer == Assistant(p, post[p].attempt, a) IN
    IF post[p].attempt = 0 THEN Append(post[p].new, answer)
    ELSE [post[p].new EXCEPT ![Len(post[p].new)] = answer]

(* Mutant: an unreadable answer does not count as a round.                 *)
Reject_Recounts(p, a) ==
    /\ At(p, "asking") /\ a \in Bad
    /\ a = "unreadable" \/ post[p].attempt < MaxRetries
    /\ post' = [post EXCEPT ![p].attempt = IF a = "unreadable" THEN 1 ELSE @ + 1,
                            ![p].new = Stored(p, a)]
    /\ UNCHANGED <<created, messages, plans, live, events>>

(* Mutant: the bound on the rounds is gone.                                *)
Reject_Unbounded(p, a) ==
    /\ At(p, "asking") /\ a \in Bad
    /\ post' = [post EXCEPT ![p].attempt = @ + 1, ![p].new = Stored(p, a)]
    /\ UNCHANGED <<created, messages, plans, live, events>>

Reject(p, a) ==
    /\ At(p, "asking") /\ a \in Bad
    /\ post[p].attempt < MaxRetries
    /\ post' = [post EXCEPT ![p].attempt = @ + 1, ![p].new = Stored(p, a)]
    /\ UNCHANGED <<created, messages, plans, live, events>>

(* "Planner could not produce a valid plan"                                *)
Exhaust(p, a) ==
    /\ At(p, "asking") /\ a \in Bad
    /\ post[p].attempt = MaxRetries
    /\ Move(p, "failed")
    /\ UNCHANGED <<created, messages, plans, live, events>>

(* Mutant: the last round is not validated.                                *)
Accept_LastUnchecked(p, a) ==
    /\ At(p, "asking")
    /\ a \in Good \/ post[p].attempt = MaxRetries
    /\ post' = [post EXCEPT ![p].pc = "accepted", ![p].new = Stored(p, a)]
    /\ UNCHANGED <<created, messages, plans, live, events>>

Accept(p, a) ==
    /\ At(p, "asking") /\ a \in Good
    /\ post' = [post EXCEPT ![p].pc = "accepted", ![p].new = Stored(p, a)]
    /\ UNCHANGED <<created, messages, plans, live, events>>

LastAnswer(p) == post[p].new[Len(post[p].new)].answer

(* Mutant: the turn is added to what the row holds by now.                 *)
Commit_Appends(p) ==
    /\ At(p, "accepted")
    /\ messages' = messages \o post[p].new
    /\ plans' = IF LastAnswer(p) # "clarification" THEN plans \cup {p} ELSE plans
    /\ Move(p, "answered")
    /\ UNCHANGED <<created, live, events>>

(* The transcript and the plan are one commit.                             *)
Commit(p) ==
    /\ At(p, "accepted")
    /\ messages' = post[p].copy \o post[p].new
    /\ plans' = IF LastAnswer(p) # "clarification" THEN plans \cup {p} ELSE plans
    /\ Move(p, "answered")
    /\ UNCHANGED <<created, live, events>>

-----------------------------------------------------------------------------
Event(kind) ==
    /\ kind \in Events /\ events < MaxEvents
    /\ events' = events + 1

(* The backend is out of reach, too slow, or answers with an error.        *)
ProviderFails(p) ==
    /\ Event("provider")
    /\ At(p, "asking")
    /\ Move(p, "failed")
    /\ UNCHANGED <<created, messages, plans, live>>

(* DELETE /assets/{id} of an asset the session names.                      *)
DeleteAsset(a) ==
    /\ Event("delete")
    /\ a \in live
    /\ live' = live \ {a}
    /\ UNCHANGED <<created, messages, plans, post>>

(* The process that serves the request dies.                               *)
RequestLost(p) ==
    /\ Event("lost")
    /\ post[p].pc \in {"loaded", "asking", "accepted"}
    /\ Move(p, "failed")
    /\ UNCHANGED <<created, messages, plans, live>>

-----------------------------------------------------------------------------
Propose(p) == \E a \in Answer : Reject(p, a) \/ Exhaust(p, a) \/ Accept(p, a)

(* Every message dealt with, or no session could be created.               *)
Quiescent == (\A p \in Post : post[p].pc \in Ended) \/ (~created /\ live # Asset)

Terminating == Quiescent /\ UNCHANGED vars

Next ==
    \/ CreateSession
    \/ \E p \in Post : \/ Load(p) \/ LoadAssets(p) \/ Propose(p) \/ Commit(p)
                       \/ ProviderFails(p) \/ RequestLost(p)
    \/ \E a \in Asset : DeleteAsset(a)
    \/ Terminating

(* A request goes on once begun; every call of a backend ends, because the *)
(* client gives up after agent_timeout_seconds.                            *)
Fairness == \A p \in Post : WF_vars(LoadAssets(p) \/ Propose(p) \/ Commit(p))

Spec == Init /\ [][Next]_vars
FairSpec == Spec /\ Fairness

-----------------------------------------------------------------------------
(* Every variable has its type.                                            *)
TypeOK ==
    /\ created \in BOOLEAN
    /\ messages \in Transcript
    /\ plans \subseteq Post
    /\ live \subseteq Asset
    /\ post \in [Post -> [pc : {"idle", "loaded", "asking", "accepted"} \cup Ended,
                          copy : Transcript, attempt : Attempt, new : Transcript]]
    /\ events \in Nat

(* However many posts overlap and however often a plan had to be repaired, *)
(* the transcript is a sequence of turns, a message of a user and the one  *)
(* answer to it that was accepted, and the planner gave that answer        *)
(* knowing exactly the conversation that stands before it: an answer never *)
(* follows a turn that the planner had not seen.                           *)
Turn(i) ==
    /\ messages[i].role = "user" /\ i < Len(messages)
    /\ messages[i + 1] \in [role : {"assistant"}, post : {messages[i].post},
                            attempt : Attempt, answer : Good]

PlannerSawHistory ==
    \A i \in DOMAIN messages :
        i % 2 = 1 => /\ Turn(i)
                     /\ SubSeq(messages, 1, i - 1) = post[messages[i].post].copy

(* All of a post or nothing: a plan was stored for it if and only if its   *)
(* accepted answer is a valid plan, even when the turn has since left the  *)
(* transcript, and a post that failed, at whatever point, left no trace.   *)
PostIsAllOrNothing ==
    \A p \in Post :
        /\ p \in plans <=> At(p, "answered") /\ LastAnswer(p) = "plan"
        /\ At(p, "failed") => \A i \in DOMAIN messages : messages[i].post # p

(* Every post is answered or fails: repairing ends.                        *)
PostEnds == \A p \in Post : At(p, "loaded") ~> post[p].pc \in Ended

=============================================================================
