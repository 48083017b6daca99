------------------------- MODULE ConversationProofs -------------------------
(* What holds of Conversation for every number of posts and of repairs,    *)
(* whatever the planner answers and whatever goes wrong.                   *)
EXTENDS Conversation, SequenceTheorems, TLAPS

Request == [pc : {"idle", "loaded", "asking", "accepted"} \cup Ended,
            copy : Transcript, attempt : Attempt, new : Transcript]

AcceptedAnswer(p) == [role : {"assistant"}, post : {p}, attempt : Attempt, answer : Good]

(* A transcript made of turns, each of an answered post, whose planner was *)
(* given what stands before it.                                            *)
Told(posts, m) ==
    /\ \A i \in DOMAIN m : posts[m[i].post].pc = "answered"
    /\ \A i \in DOMAIN m : i % 2 = 1 =>
          /\ m[i].role = "user" /\ i < Len(m) /\ m[i + 1] \in AcceptedAnswer(m[i].post)
          /\ SubSeq(m, 1, i - 1) = posts[m[i].post].copy

(* What a request holds of its own turn, by how far it has come.           *)
Talk(p) ==
    LET new == post[p].new IN
    /\ post[p].pc \in {"idle", "loaded"} => post[p].attempt = 0 /\ new = <<>>
    /\ post[p].pc = "asking" => /\ Len(new) = IF post[p].attempt = 0 THEN 1 ELSE 2
                                /\ new[1] = User(p)
    /\ post[p].pc \in {"accepted", "answered"} =>
          Len(new) = 2 /\ new[1] = User(p) /\ new[2] \in AcceptedAnswer(p)
    /\ p \in plans <=> post[p].pc = "answered" /\ LastAnswer(p) = "plan"

TalkInv ==
    /\ TypeOK
    /\ \A p \in Post : Talk(p)
    /\ Told(post, messages) /\ \A p \in Post : Told(post, post[p].copy)

(* At first the transcript is empty and no post has begun.                 *)
LEMMA InitTalk == Init => TalkInv
<1> SUFFICES ASSUME Init PROVE TalkInv
    OBVIOUS
<1>1. <<>> \in Transcript /\ 0 \in Attempt
      BY EmptySeq, RetriesAssumption DEF Transcript, Attempt
<1>2. TypeOK
      BY <1>1 DEF Init, TypeOK
<1>3. Told(post, messages) /\ \A p \in Post : Told(post, post[p].copy)
      BY DEF Init, Told
<1>4. \A p \in Post : Talk(p)
      BY DEF Init, Talk
<1> QED
    BY <1>2, <1>3, <1>4 DEF TalkInv

(* A transcript stays told while requests of other turns go on: those that *)
(* were answered keep what they were given.                                *)
LEMMA StillTold ==
    ASSUME NEW before, NEW after, NEW m \in Transcript, Told(before, m),
           \A q \in Post : before[q].pc = "answered" => after[q] = before[q]
    PROVE  Told(after, m)
<1>1. \A i \in DOMAIN m : m[i].post \in Post
      BY DEF Transcript, Message
<1>2. \A i \in DOMAIN m : after[m[i].post] = before[m[i].post]
      BY <1>1 DEF Told
<1> QED
    BY <1>2 DEF Told

(* An accepted turn added to the transcript its planner was given is told. *)
LEMMA TurnTold ==
    ASSUME NEW posts, NEW p \in Post, NEW m \in Transcript, NEW new \in Transcript,
           Told(posts, m), Len(new) = 2, new[1] = User(p), new[2] \in AcceptedAnswer(p),
           posts[p].pc = "answered", posts[p].copy = m
    PROVE  Told(posts, m \o new)
<1> DEFINE all == m \o new
           L == Len(m)
<1>0. m \in Seq(Message) /\ new \in Seq(Message) /\ L \in Nat /\ DOMAIN m = 1..L
      BY DEF Transcript
<1>1. /\ all \in Seq(Message) /\ Len(all) = L + 2 /\ DOMAIN all = 1..(L + 2)
      /\ \A i \in 1..L : all[i] = m[i]
      /\ all[L + 1] = new[1] /\ all[L + 2] = new[2]
  <2>0. Len(m) + Len(new) = L + 2
        OBVIOUS
  <2>6. all \in Seq(Message) /\ Len(all) = Len(m) + Len(new)
        BY <1>0, ConcatProperties
  <2>7. \A i \in 1..Len(m) + Len(new) : all[i] = IF i <= Len(m) THEN m[i] ELSE new[i - Len(m)]
        BY <1>0, ConcatProperties
  <2>1. /\ all \in Seq(Message) /\ Len(all) = L + 2
        /\ \A i \in 1..L + 2 : all[i] = IF i <= L THEN m[i] ELSE new[i - L]
        BY <2>0, <2>6, <2>7
  <2> HIDE DEF all
  <2>2. L + 1 \in 1..L + 2 /\ L + 2 \in 1..L + 2 /\ ~(L + 1 <= L) /\ ~(L + 2 <= L)
        /\ (L + 1) - L = 1 /\ (L + 2) - L = 2
        BY <1>0
  <2>3. all[L + 1] = new[1] /\ all[L + 2] = new[2]
        BY <2>1, <2>2
  <2>4. \A i \in 1..L : i \in 1..L + 2 /\ i <= L
        BY <1>0
  <2>5. \A i \in 1..L : all[i] = m[i]
        BY <2>1, <2>4
  <2> QED
      BY <2>1, <2>3, <2>5
<1>2. L % 2 = 0
  <2> SUFFICES ASSUME L % 2 = 1 PROVE FALSE
      BY <1>0
  <2>1. L \in DOMAIN m
        BY <1>0
  <2>2. \A i \in DOMAIN m : i % 2 = 1 => i < L
        BY DEF Told
  <2>3. L % 2 = 1 => L < L
        BY <2>1, <2>2
  <2> QED
      BY <1>0, <2>3
<1>3. new[1].role = "user" /\ new[1].post = p /\ new[2].post = p
      BY DEF User, AcceptedAnswer
<1> HIDE DEF all
<1>4. ASSUME NEW i \in DOMAIN all PROVE posts[all[i].post].pc = "answered"
      BY <1>0, <1>1, <1>3, <1>4 DEF Told
<1>5. ASSUME NEW n \in 0..L PROVE SubSeq(all, 1, n) = SubSeq(m, 1, n)
  <2>1. CASE n = 0
        BY <2>1, SubSeqEmpty
  <2>2. CASE n # 0
        BY <1>0, <2>2, SubSeqOfConcat1 DEF all
  <2> QED
      BY <2>1, <2>2
<1>6. SubSeq(m, 1, L) = m
      BY SubSeqFull DEF Transcript
<1>7. ASSUME NEW i \in DOMAIN all, i % 2 = 1
      PROVE  /\ all[i].role = "user" /\ i < Len(all) /\ all[i + 1] \in AcceptedAnswer(all[i].post)
             /\ SubSeq(all, 1, i - 1) = posts[all[i].post].copy
  <2>1. CASE i = L + 1
    <3>1. all[i] = new[1] /\ all[i + 1] = new[2] /\ i < Len(all)
          BY <1>0, <1>1, <2>1
    <3>2. SubSeq(all, 1, i - 1) = m
          BY <1>0, <1>1, <1>5, <1>6, <2>1
    <3> QED
        BY <1>3, <3>1, <3>2
  <2>2. CASE i \in 1..L
    <3>1. /\ m[i].role = "user" /\ i < L /\ m[i + 1] \in AcceptedAnswer(m[i].post)
          /\ SubSeq(m, 1, i - 1) = posts[m[i].post].copy
          BY <1>0, <1>7, <2>2 DEF Told
    <3>2. all[i] = m[i] /\ all[i + 1] = m[i + 1] /\ i < Len(all)
          BY <1>0, <1>1, <2>2, <3>1
    <3>3. SubSeq(all, 1, i - 1) = SubSeq(m, 1, i - 1)
          BY <1>0, <1>1, <1>5, <2>2
    <3> QED
        BY <3>1, <3>2, <3>3
  <2>3. i \in 1..L \/ i = L + 1 \/ i = L + 2
        BY <1>0, <1>1, <1>7
  <2>4. (L + 2) % 2 = 0
        BY <1>0, <1>2
  <2> QED
      BY <1>7, <2>1, <2>2, <2>3, <2>4
<1> QED
    BY <1>4, <1>7 DEF Told, all

(* A step of one request that does not answer its post.                    *)
LEMMA RequestStep ==
    ASSUME TalkInv, NEW p \in Post, NEW new \in Request, post' = [post EXCEPT ![p] = new],
           post[p].pc # "answered", messages' = messages, plans' = plans,
           created' \in BOOLEAN, live' \subseteq Asset, events' \in Nat,
           Talk(p)', new.copy \in {post[p].copy, messages}
    PROVE  TalkInv'
<1>1. post'[p] = new /\ \A q \in Post : q # p => post'[q] = post[q]
      BY DEF TalkInv, TypeOK
<1>2. TypeOK'
      BY DEF TalkInv, TypeOK, Request
<1>3. ASSUME NEW q \in Post PROVE Talk(q)'
  <2>1. CASE q = p
        BY <2>1
  <2>2. CASE q # p
        BY <1>1, <2>2 DEF TalkInv, Talk, LastAnswer
  <2> QED
      BY <2>1, <2>2
<1>4. messages \in Transcript /\ \A q \in Post : post[q].copy \in Transcript
      BY DEF TalkInv, TypeOK
<1>5. \A q \in Post : post[q].pc = "answered" => post'[q] = post[q]
      BY <1>1
<1>9. Told(post, messages) /\ \A q \in Post : Told(post, post[q].copy)
      BY DEF TalkInv
<1>6. Told(post', messages)
  <2> DEFINE after == post'
  <2>1. \A q \in Post : post[q].pc = "answered" => after[q] = post[q]
        BY <1>5
  <2> HIDE DEF after
  <2>2. Told(after, messages)
        BY <1>4, <1>9, <2>1, StillTold
  <2> QED
      BY <2>2 DEF after
<1>7. ASSUME NEW q \in Post PROVE Told(post', post[q].copy)
  <2> DEFINE after == post'
  <2>1. \A p1 \in Post : post[p1].pc = "answered" => after[p1] = post[p1]
        BY <1>5
  <2> HIDE DEF after
  <2>2. Told(after, post[q].copy)
        BY <1>4, <1>9, <2>1, StillTold
  <2> QED
      BY <2>2 DEF after
<1>8. ASSUME NEW q \in Post PROVE Told(post', post'[q].copy)
      BY <1>1, <1>6, <1>7
<1> QED
    BY <1>2, <1>3, <1>6, <1>8 DEF TalkInv

(* Every step keeps the invariant.                                         *)
LEMMA NextTalk == TalkInv /\ [Next]_vars => TalkInv'
<1> SUFFICES ASSUME TalkInv, [Next]_vars PROVE TalkInv'
    OBVIOUS
<1>t. TypeOK /\ post \in [Post -> Request] /\ \A p \in Post : Talk(p)
      BY DEF TalkInv, TypeOK, Request
<1>1. ASSUME NEW p \in Post, Load(p) \/ LoadAssets(p) PROVE TalkInv'
  <2>1. post[p] \in Request /\ post[p].pc \in {"idle", "loaded"} /\ p \notin plans
        /\ post[p].attempt = 0 /\ post[p].new = <<>>
        BY <1>1, <1>t DEF Load, LoadAssets, At, Talk
  <2>2. <<User(p)>> \in Transcript /\ messages \in Transcript /\ Len(<<User(p)>>) = 1
        /\ <<User(p)>>[1] = User(p)
        BY <1>t DEF Transcript, Message, User, TypeOK
  <2>3. CASE Load(p)
    <3> DEFINE new == [post[p] EXCEPT !.pc = "loaded", !.copy = messages]
    <3>1. post' = [post EXCEPT ![p] = new]
          BY <1>t, <2>3 DEF Load
    <3>2. new \in Request /\ new.pc = "loaded" /\ new.attempt = 0 /\ new.new = <<>>
          /\ new.copy = messages
          BY <2>1, <2>2 DEF Request
    <3> HIDE DEF new
    <3>3. Talk(p)'
          BY <1>t, <2>1, <2>3, <3>1, <3>2 DEF Load, Talk
    <3> QED
        BY <1>t, <2>1, <2>3, <3>1, <3>2, <3>3, RequestStep DEF Load, TypeOK
  <2>4. CASE LoadAssets(p)
    <3>1. PICK new \in Request : /\ post' = [post EXCEPT ![p] = new]
                                 /\ new.copy = post[p].copy
                                 /\ \/ new.pc = "asking" /\ new.attempt = 0 /\ new.new = <<User(p)>>
                                    \/ new.pc = "failed"
      <4>1. CASE live = Asset
        <5> DEFINE new == [post[p] EXCEPT !.pc = "asking", !.new = <<User(p)>>]
        <5>1. new \in Request /\ new.pc = "asking" /\ new.attempt = 0 /\ new.new = <<User(p)>>
              /\ new.copy = post[p].copy
              BY <2>1, <2>2 DEF Request
        <5>2. post' = [post EXCEPT ![p] = new]
              BY <1>t, <2>4, <4>1 DEF LoadAssets
        <5> QED
            BY <5>1, <5>2
      <4>2. CASE live # Asset
        <5> DEFINE new == [post[p] EXCEPT !.pc = "failed"]
        <5>1. new \in Request /\ new.pc = "failed" /\ new.copy = post[p].copy
              BY <2>1 DEF Request, Ended
        <5>2. post' = [post EXCEPT ![p] = new]
              BY <1>t, <2>4, <4>2 DEF LoadAssets, Move
        <5> QED
            BY <5>1, <5>2
      <4> QED
          BY <4>1, <4>2
    <3>2. Talk(p)'
          BY <1>t, <2>1, <2>2, <2>4, <3>1 DEF LoadAssets, Talk
    <3> QED
        BY <1>t, <2>1, <2>4, <3>1, <3>2, RequestStep DEF LoadAssets, TypeOK
  <2> QED
      BY <1>1, <2>3, <2>4
<1>2. ASSUME NEW p \in Post, NEW a \in Answer, Reject(p, a) \/ Accept(p, a) PROVE TalkInv'
  <2> DEFINE answer == Assistant(p, post[p].attempt, a)
  <2>1. /\ post[p] \in Request /\ post[p].pc = "asking" /\ p \notin plans
        /\ post[p].new \in Seq(Message) /\ post[p].attempt \in Attempt
        /\ Len(post[p].new) = IF post[p].attempt = 0 THEN 1 ELSE 2
        /\ post[p].new[1] = User(p)
        BY <1>2, <1>t DEF Reject, Accept, At, Talk, Request, Transcript
  <2>2. answer \in Message /\ (a \in Good => answer \in AcceptedAnswer(p))
        BY <1>2, <2>1 DEF Message, Assistant, AcceptedAnswer
  <2> HIDE DEF answer
  <2>3. /\ Stored(p, a) \in Seq(Message) /\ Len(Stored(p, a)) = 2
        /\ Stored(p, a)[1] = User(p) /\ Stored(p, a)[2] = answer
    <3>1. CASE post[p].attempt = 0
      <4>1. Stored(p, a) = Append(post[p].new, answer)
            BY <3>1 DEF Stored, answer
      <4> QED
          BY <2>1, <2>2, <3>1, <4>1, AppendProperties
    <3>2. CASE post[p].attempt # 0
      <4>1. Stored(p, a) = [post[p].new EXCEPT ![2] = answer]
            BY <2>1, <3>2 DEF Stored, answer
      <4> QED
          BY <2>1, <2>2, <3>2, <4>1, ExceptSeq
    <3> QED
        BY <3>1, <3>2
  <2>4. CASE Reject(p, a)
    <3> DEFINE new == [post[p] EXCEPT !.attempt = @ + 1, !.new = Stored(p, a)]
    <3>1. post[p].attempt + 1 \in Attempt /\ post[p].attempt + 1 # 0
          BY <2>1, <2>4, RetriesAssumption DEF Reject, Attempt
    <3>2. new \in Request /\ new.pc = "asking" /\ new.attempt # 0 /\ new.new = Stored(p, a)
          /\ new.copy = post[p].copy
          BY <2>1, <2>3, <3>1 DEF Request, Transcript
    <3>3. post' = [post EXCEPT ![p] = new]
          BY <1>t, <2>4 DEF Reject
    <3> HIDE DEF new
    <3>4. Talk(p)'
          BY <1>t, <2>1, <2>3, <2>4, <3>2, <3>3 DEF Reject, Talk
    <3> QED
        BY <1>t, <2>1, <2>4, <3>2, <3>3, <3>4, RequestStep DEF Reject, TypeOK
  <2>5. CASE Accept(p, a)
    <3> DEFINE new == [post[p] EXCEPT !.pc = "accepted", !.new = Stored(p, a)]
    <3>1. new \in Request /\ new.pc = "accepted" /\ new.new = Stored(p, a)
          /\ new.copy = post[p].copy
          BY <2>1, <2>3 DEF Request, Transcript
    <3>2. post' = [post EXCEPT ![p] = new]
          BY <1>t, <2>5 DEF Accept
    <3> HIDE DEF new
    <3>3. a \in Good
          BY <2>5 DEF Accept
    <3>4. Talk(p)'
          BY <1>t, <2>1, <2>2, <2>3, <2>5, <3>1, <3>2, <3>3 DEF Accept, Talk
    <3> QED
        BY <1>t, <2>1, <2>5, <3>1, <3>2, <3>4, RequestStep DEF Accept, TypeOK
  <2> QED
      BY <1>2, <2>4, <2>5
<1>3. ASSUME NEW p \in Post,
             (\E a \in Answer : Exhaust(p, a)) \/ ProviderFails(p) \/ RequestLost(p)
      PROVE  TalkInv'
  <2> DEFINE new == [post[p] EXCEPT !.pc = "failed"]
  <2>1. /\ post[p] \in Request /\ post[p].pc # "answered" /\ p \notin plans
        /\ post' = [post EXCEPT ![p] = new]
        /\ messages' = messages /\ plans' = plans
        /\ created' = created /\ live' = live /\ events' \in Nat
        BY <1>3, <1>t DEF Exhaust, ProviderFails, RequestLost, Event, At, Move, Talk, TypeOK
  <2>2. new \in Request /\ new.pc = "failed" /\ new.copy = post[p].copy
        BY <2>1 DEF Request, Ended
  <2> HIDE DEF new
  <2>3. Talk(p)'
        BY <1>t, <2>1, <2>2 DEF Talk
  <2> QED
      BY <1>t, <2>1, <2>2, <2>3, RequestStep DEF TypeOK
<1>4. ASSUME NEW p \in Post, Commit(p) PROVE TalkInv'
  <2> DEFINE new == post[p].new
             was == post[p].copy
  <2>1. /\ post[p] \in Request /\ post[p].pc = "accepted" /\ p \notin plans
        /\ was \in Transcript /\ new \in Transcript /\ Told(post, was)
        /\ Len(new) = 2 /\ new[1] = User(p) /\ new[2] \in AcceptedAnswer(p)
        BY <1>4, <1>t DEF Commit, At, Talk, Request, TalkInv
  <2>2. /\ post' = [post EXCEPT ![p].pc = "answered"] /\ messages' = was \o new
        /\ created' = created /\ live' = live /\ events' = events
        /\ plans' = IF LastAnswer(p) # "clarification" THEN plans \cup {p} ELSE plans
        BY <1>4 DEF Commit, Move
  <2>3. /\ post' \in [Post -> Request] /\ post'[p].pc = "answered" /\ post'[p].new = new
        /\ post'[p].copy = was
        /\ \A q \in Post : q # p => post'[q] = post[q]
        BY <1>t, <2>1, <2>2 DEF Request, Ended
  <2>4. \A q \in Post : post[q].pc = "answered" => post'[q] = post[q]
        BY <2>1, <2>3
  <2>5. Told(post', was)
        BY <2>1, <2>4, StillTold
  <2>6. Told(post', messages')
        BY <2>1, <2>2, <2>3, <2>5, TurnTold
  <2>7. messages' \in Transcript
        BY <2>1, <2>2, ConcatProperties DEF Transcript
  <2>8. ASSUME NEW q \in Post PROVE Told(post', post'[q].copy)
    <3>1. Told(post', post[q].copy)
          BY <1>t, <2>4, StillTold DEF TalkInv, Request
    <3> QED
        BY <2>3, <3>1
  <2>9. ASSUME NEW q \in Post PROVE Talk(q)'
    <3>1. CASE q # p
          BY <1>t, <2>2, <2>3, <3>1 DEF Talk, LastAnswer
    <3>2. CASE q = p
      <4>1. LastAnswer(p) \in Good /\ LastAnswer(p)' = LastAnswer(p)
            BY <2>1, <2>3 DEF LastAnswer, AcceptedAnswer
      <4> QED
          BY <2>1, <2>2, <2>3, <3>2, <4>1 DEF Talk, Good
    <3> QED
        BY <3>1, <3>2
  <2>10. TypeOK'
        BY <1>t, <2>2, <2>3, <2>7 DEF TypeOK, Request
  <2> QED
      BY <2>6, <2>8, <2>9, <2>10 DEF TalkInv
<1>5. ASSUME messages' = messages, plans' = plans, post' = post, created' \in BOOLEAN,
             live' \subseteq Asset, events' \in Nat
      PROVE  TalkInv'
      BY <1>5 DEF TalkInv, TypeOK, Talk, LastAnswer
<1>6. CASE CreateSession \/ UNCHANGED vars \/ \E a \in Asset : DeleteAsset(a)
  <2>1. messages' = messages /\ plans' = plans /\ post' = post
        BY <1>6 DEF CreateSession, DeleteAsset, vars
  <2>2. created' \in BOOLEAN /\ live' \subseteq Asset /\ events' \in Nat
    <3>1. CASE CreateSession \/ UNCHANGED vars
          BY <1>t, <3>1 DEF CreateSession, vars, TypeOK
    <3>2. ASSUME NEW a \in Asset, DeleteAsset(a)
          PROVE  created' \in BOOLEAN /\ live' \subseteq Asset /\ events' \in Nat
          BY <1>t, <3>2 DEF DeleteAsset, Event, TypeOK
    <3> QED
        BY <1>6, <3>1, <3>2
  <2> QED
      BY <1>5, <2>1, <2>2
<1> QED
    BY <1>1, <1>2, <1>3, <1>4, <1>6 DEF Next, Propose, Terminating

(* The invariant of the module.                                            *)
LEMMA TalkInvariant == Spec => []TalkInv
BY InitTalk, NextTalk, PTL DEF Spec

(* Every variable of Conversation keeps its type.                          *)
THEOREM ConversationTypes == Spec => []TypeOK
<1>1. TalkInv => TypeOK
      BY DEF TalkInv
<1> QED
    BY TalkInvariant, <1>1, PTL

(* The transcript is a sequence of turns, and every accepted answer in it  *)
(* was given to exactly the conversation that stands before it.            *)
THEOREM PlannerSawIt == Spec => []PlannerSawHistory
<1>1. TalkInv => PlannerSawHistory
      BY DEF TalkInv, Told, PlannerSawHistory, Turn, AcceptedAnswer
<1> QED
    BY TalkInvariant, <1>1, PTL

(* A post leaves its turn and its plan, or no trace at all.                *)
THEOREM AllOrNothing == Spec => []PostIsAllOrNothing
<1>1. TalkInv => PostIsAllOrNothing
      BY DEF TalkInv, Talk, Told, PostIsAllOrNothing, At
<1> QED
    BY TalkInvariant, <1>1, PTL
=============================================================================
