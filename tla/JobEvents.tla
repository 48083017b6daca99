----------------------------- MODULE JobEvents -----------------------------
(***************************************************************************)
(* GET /jobs/{id}/events: streams that poll the row of a job once a second *)
(* and tell their client when status or progress differ from what it was   *)
(* told last, until the row they read is terminal (api/v1/jobs.py).        *)
(*                                                                         *)
(* Every poll opens a session of its own and decides everything from the   *)
(* one copy it reads, so a poll is a step.                                 *)
(***************************************************************************)
EXTENDS Jobs

CONSTANT Stream  \* the streams clients may open

VARIABLE stream

eventVars == <<vars, stream>>

Snapshot(j) == [status |-> jobs[j].status, progress |-> jobs[j].progress]
Nothing == [status |-> "absent", progress |-> 0]

(* The delivery whose work the row shows: a new one changes nothing before *)
(* its start is committed.                                                 *)
Shown(j) == IF At(j, {"popped", "loaded"}) THEN tries[j] - 1 ELSE tries[j]

(* A client may ask for the events of any job that exists.                 *)
Open(s) ==
    /\ stream[s].pc = "idle"
    /\ jobs[stream[s].job].status # "absent"
    /\ stream' = [stream EXCEPT ![s].pc = "open"]
    /\ UNCHANGED vars

(* `try` is not in the code: it remembers which delivery was told of.      *)
Tell(s, snapshot, last) ==
    /\ stream[s].pc = "open"
    /\ stream' = [stream EXCEPT
         ![s].last = last, ![s].try = Shown(stream[s].job),
         ![s].pc = IF snapshot.status \in Terminal THEN "closed" ELSE "open"]
    /\ UNCHANGED vars

(* Mutant: a change of the status alone is not told.                       *)
Poll_ProgressOnly(s) ==
    LET new == Snapshot(stream[s].job) IN
    Tell(s, new, IF new.progress = stream[s].last.progress THEN stream[s].last ELSE new)

(* Mutant: a failed job does not end the stream.                           *)
Poll_GoesOnAfterFailure(s) ==
    /\ jobs[stream[s].job].status # "failed"
    /\ LET new == Snapshot(stream[s].job) IN Tell(s, new, new)

Poll(s) == LET new == Snapshot(stream[s].job) IN Tell(s, new, new)

(* The client goes away, or the API process does, and with it all that was *)
(* remembered for it.                                                      *)
Disconnect(s) ==
    /\ stream[s].pc = "open"
    /\ stream' = [stream EXCEPT ![s].pc = "gone", ![s].last = Nothing, ![s].try = 0]
    /\ UNCHANGED vars

EventsInit ==
    /\ Init
    /\ stream \in [Stream -> [pc : {"idle"}, job : Job, last : {Nothing}, try : {0}]]

EventsNext ==
    \/ Next /\ UNCHANGED stream
    \/ \E s \in Stream : Open(s) \/ Poll(s) \/ Disconnect(s)

(* A stream goes on polling; nothing is assumed of its client.             *)
EventsSpec ==
    /\ EventsInit /\ [][EventsNext]_eventVars
    /\ Fairness
    /\ \A s \in Stream : WF_eventVars(Poll(s))

-----------------------------------------------------------------------------
(* What a client has been told goes back, to an earlier status or to less  *)
(* progress, only when the job has been delivered again since, although    *)
(* streams, worker and create requests never wait for each other.          *)
Rank(status) == CASE status = "absent" -> 0 [] status = "queued" -> 1
                  [] status = "running" -> 2 [] OTHER -> 3

Behind(new, old) == Rank(new.status) < Rank(old.status) \/ new.progress < old.progress

StreamGoesForward ==
    [][\A s \in Stream :
         stream'[s].pc # "gone" /\ Behind(stream'[s].last, stream[s].last) =>
             stream'[s].try > stream[s].try]_eventVars

(* The last word of a stream that closed is how the job ended: it is what  *)
(* the row says, unless the job was delivered again since.                 *)
LastWordStands ==
    \A s \in Stream : stream[s].pc = "closed" =>
        \/ stream[s].last = Snapshot(stream[s].job)
        \/ Shown(stream[s].job) > stream[s].try

(* A stream whose client stays ends, whatever happens to the worker.       *)
StreamEnds == \A s \in Stream : stream[s].pc = "open" ~> stream[s].pc # "open"
=============================================================================
