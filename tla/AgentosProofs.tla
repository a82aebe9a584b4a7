---------------------------- MODULE AgentosProofs ---------------------------
(***************************************************************************)
(* Proofs about the guest agent: its turn (Agent), and one call of         *)
(* shell_run (Shell).                                                      *)
(*                                                                         *)
(* Agent: for every number of steps, every set of replies the host may     *)
(* send and every number of refused allocations, no command is run twice,  *)
(* nothing is recorded that the host did not send whole, and as long as    *)
(* memory lasts every request keeps the protocol of the chat.  The         *)
(* protocol is not inductive by itself: between the recording of a message *)
(* and its last answer the conversation is Owed answers.                   *)
(*                                                                         *)
(* Shell: for every limit, chunk and pipe size, and whatever the command's *)
(* processes do, OutputBounded, NothingLost and JobGone.                   *)
(***************************************************************************)
EXTENDS Agent, Shell, FiniteSetTheorems, TLAPS

CallSet == [id : STRING, name : Names, args : Arguments]
MessageSet == [role : {"system", "user", "assistant", "tool"},
               calls : Seq(CallSet), id : STRING \cup {"none"}]

\* c is in order but for the message at a, whose calls from n on are unanswered.
Owed(c, a, n) ==
    /\ a \in DOMAIN c
    /\ c[a].role = "assistant"
    /\ n \in 1 .. Len(c[a].calls) + 1
    /\ Len(c) = a + n - 1
    /\ \A i \in DOMAIN c : \A k \in DOMAIN c[i].calls :
         i # a \/ k < n =>
           /\ i + k \in DOMAIN c
           /\ c[i + k].role = "tool"
           /\ c[i + k].id = c[i].calls[k].id
    /\ \A j \in DOMAIN c : c[j].role = "tool" =>
         \E i \in 1 .. j - 1 : j - i \in DOMAIN c[i].calls

Types ==
    /\ TypeOK
    /\ pc \in {"call", "record", "tools"} => step < MaxSteps
    /\ pc = "record" \/ pc = "tools" => calls \in Seq(CallSet)
    /\ conv \in Seq(MessageSet)
    /\ next \in Nat
    /\ accepted \in Nat
    /\ ran \in Seq(Nat \X Nat)

Protocol ==
    refused = 0 =>
      /\ pc # "tools" => Answered(conv)
      /\ pc = "tools" => \E a \in DOMAIN conv :
           Owed(conv, a, next) /\ conv[a].calls = Replayed(calls)

Provenance ==
    /\ \A r \in reply :
         came = ReplyPieces /\ r.framed /\ r.ok /\ r.kind = "message"
           => Replayed(r.calls) \in given
    /\ http = "stored" => \A r \in reply : r.framed
    /\ reply = {} => came = 0
    /\ pc = "record" => Replayed(calls) \in given

Spent ==
    /\ RunOnce
    /\ \A n \in DOMAIN ran :
         /\ ran[n][1] <= accepted
         /\ pc = "record" => ran[n][1] < accepted
         /\ pc = "tools" /\ ran[n][1] = accepted => ran[n][2] < next

IInv == Types /\ Protocol /\ RecordedWasGiven /\ Provenance /\ Spent

-----------------------------------------------------------------------------
(* The conversation.                                                       *)

\* Filling in what is missing keeps the calls and their ids.
LEMMA ReplayedKeeps ==
    ASSUME NEW cs \in Seq(CallSet)
    PROVE  /\ Replayed(cs) \in Seq(CallSet)
           /\ Len(Replayed(cs)) = Len(cs)
           /\ \A k \in DOMAIN cs : Replayed(cs)[k].id = cs[k].id
<1>1. \A k \in DOMAIN cs : cs[k] \in CallSet
  OBVIOUS
<1>2. \A k \in DOMAIN cs : /\ Replayed(cs)[k] \in CallSet
                           /\ Replayed(cs)[k].id = cs[k].id
  BY <1>1 DEF Replayed, CallSet, Names, Arguments
<1>3. Len(cs) \in Nat /\ DOMAIN cs = 1 .. Len(cs)
  OBVIOUS
<1>4. Replayed(cs) \in [1 .. Len(cs) -> CallSet]
  BY <1>2, <1>3 DEF Replayed
<1>5. Replayed(cs) \in Seq(CallSet) /\ Len(Replayed(cs)) = Len(cs)
  BY <1>3, <1>4
<1> QED
  BY <1>2, <1>5

LEMMA MessageIn ==
    ASSUME NEW role \in {"system", "user", "assistant", "tool"},
           NEW cs \in Seq(CallSet), NEW id \in STRING \cup {"none"}
    PROVE  Message(role, cs, id) \in MessageSet
BY DEF Message, MessageSet

LEMMA MessageOf ==
    ASSUME NEW c \in Seq(MessageSet), NEW i \in DOMAIN c
    PROVE  /\ c[i] \in MessageSet
           /\ c[i].calls \in Seq(CallSet)
           /\ DOMAIN c[i].calls = 1 .. Len(c[i].calls)
           /\ Len(c[i].calls) \in Nat
           /\ DOMAIN c = 1 .. Len(c) /\ Len(c) \in Nat /\ i \in Nat
<1>1. c[i] \in MessageSet
  OBVIOUS
<1>2. c[i].calls \in Seq(CallSet)
  BY <1>1 DEF MessageSet
<1> QED
  BY <1>1, <1>2

\* A message that asks nothing and answers nothing leaves an ordered
\* conversation ordered.
LEMMA SayKeeps ==
    ASSUME NEW c \in Seq(MessageSet), Answered(c),
           NEW m \in MessageSet, m.role # "tool", m.calls = <<>>
    PROVE  Answered(Append(c, m))
<1> DEFINE d == Append(c, m)
<1>1. /\ DOMAIN d = 1 .. Len(c) + 1
      /\ \A i \in DOMAIN c : i \in DOMAIN d /\ d[i] = c[i]
      /\ d[Len(c) + 1] = m
  OBVIOUS
<1>2. ASSUME NEW i \in DOMAIN d, NEW k \in DOMAIN d[i].calls
      PROVE  i + k \in DOMAIN d /\ d[i + k].role = "tool"
             /\ d[i + k].id = d[i].calls[k].id
  <2>1. i \in DOMAIN c
    BY <1>1, <1>2
  <2> QED
    BY <1>1, <1>2, <2>1 DEF Answered
<1>3. ASSUME NEW j \in DOMAIN d, d[j].role = "tool"
      PROVE  \E i \in 1 .. j - 1 : j - i \in DOMAIN d[i].calls
  <2>1. j \in DOMAIN c
    BY <1>1, <1>3
  <2>2. PICK i \in 1 .. j - 1 : j - i \in DOMAIN c[i].calls
    BY <1>1, <1>3, <2>1 DEF Answered
  <2>3. i \in DOMAIN c
    BY <2>1, <2>2
  <2> QED
    BY <1>1, <2>2, <2>3
<1> QED
  BY <1>2, <1>3 DEF Answered

\* An assistant message is owed all its answers.
LEMMA AskOwes ==
    ASSUME NEW c \in Seq(MessageSet), Answered(c),
           NEW m \in MessageSet, m.role = "assistant"
    PROVE  Owed(Append(c, m), Len(c) + 1, 1)
<1> DEFINE d == Append(c, m)
           a == Len(c) + 1
<1>1. /\ DOMAIN d = 1 .. a /\ Len(d) = a
      /\ \A i \in DOMAIN c : i \in DOMAIN d /\ d[i] = c[i]
      /\ d[a] = m
  OBVIOUS
<1>2. m.calls \in Seq(CallSet)
  BY DEF MessageSet
<1>3. ASSUME NEW i \in DOMAIN d, NEW k \in DOMAIN d[i].calls, i # a \/ k < 1
      PROVE  i + k \in DOMAIN d /\ d[i + k].role = "tool"
             /\ d[i + k].id = d[i].calls[k].id
  <2>1. i \in DOMAIN c
    BY <1>1, <1>2, <1>3
  <2> QED
    BY <1>1, <1>3, <2>1 DEF Answered
<1>4. ASSUME NEW j \in DOMAIN d, d[j].role = "tool"
      PROVE  \E i \in 1 .. j - 1 : j - i \in DOMAIN d[i].calls
  <2>1. j \in DOMAIN c
    BY <1>1, <1>4
  <2>2. PICK i \in 1 .. j - 1 : j - i \in DOMAIN c[i].calls
    BY <1>1, <1>4, <2>1 DEF Answered
  <2>3. i \in DOMAIN c
    BY <2>1, <2>2
  <2> QED
    BY <1>1, <2>2, <2>3
<1> QED
  BY <1>1, <1>2, <1>3, <1>4 DEF Owed

\* The next answer, in its place.
LEMMA AnswerPays ==
    ASSUME NEW c \in Seq(MessageSet), NEW a \in DOMAIN c, NEW n \in Nat,
           Owed(c, a, n), n \in DOMAIN c[a].calls,
           NEW m \in MessageSet, m.role = "tool", m.calls = <<>>,
           m.id = c[a].calls[n].id
    PROVE  Owed(Append(c, m), a, n + 1)
<1> DEFINE d == Append(c, m)
<1>1. /\ DOMAIN d = 1 .. Len(c) + 1 /\ Len(d) = Len(c) + 1
      /\ \A i \in DOMAIN c : i \in DOMAIN d /\ d[i] = c[i]
      /\ d[Len(c) + 1] = m
  OBVIOUS
<1> HIDE DEF d
<1>0. /\ DOMAIN c = 1 .. Len(c) /\ Len(c) \in Nat /\ a \in Nat
      /\ DOMAIN c[a].calls = 1 .. Len(c[a].calls) /\ Len(c[a].calls) \in Nat
      /\ c[a].calls \in Seq(CallSet)
  BY MessageOf
<1>6. Len(c) = a + n - 1
  BY DEF Owed
<1>2. /\ Len(c) + 1 = a + n /\ a \in DOMAIN d /\ d[a] = c[a]
      /\ c[a].calls \in Seq(CallSet) /\ n + 1 \in 1 .. Len(c[a].calls) + 1
      /\ DOMAIN c = 1 .. Len(c) /\ Len(c) \in Nat /\ a \in Nat
  <2>1. Len(c) + 1 = a + n
    BY <1>0, <1>6
  <2>2. a \in DOMAIN d /\ d[a] = c[a]
    BY <1>1
  <2>3. ASSUME NEW l \in Nat, n \in 1 .. l
        PROVE  n + 1 \in 1 .. l + 1
    BY <2>3
  <2>4. n + 1 \in 1 .. Len(c[a].calls) + 1
    BY <1>0, <2>3, Zenon
  <2> QED
    BY <1>0, <2>1, <2>2, <2>4
<1>3. ASSUME NEW i \in DOMAIN d, NEW k \in DOMAIN d[i].calls, i # a \/ k < n + 1
      PROVE  i + k \in DOMAIN d /\ d[i + k].role = "tool"
             /\ d[i + k].id = d[i].calls[k].id
  <2>1. i \in DOMAIN c /\ d[i] = c[i]
    BY <1>1, <1>3
  <2>2. c[i].calls \in Seq(CallSet) /\ k \in Nat
    BY <2>1, <1>3, MessageOf
  <2>3. CASE i = a /\ k = n
    BY <1>1, <1>2, <2>1, <2>3
  <2>4. CASE i # a \/ k < n
    <3>1. i + k \in DOMAIN c /\ c[i + k].role = "tool"
          /\ c[i + k].id = c[i].calls[k].id
      BY <1>3, <2>1, <2>4 DEF Owed
    <3> QED
      BY <1>1, <2>1, <3>1
  <2> QED
    BY <1>3, <1>2, <2>2, <2>3, <2>4
<1>4. ASSUME NEW j \in DOMAIN d, d[j].role = "tool"
      PROVE  \E i \in 1 .. j - 1 : j - i \in DOMAIN d[i].calls
  <2>1. CASE j \in DOMAIN c
    <3>1. PICK i \in 1 .. j - 1 : j - i \in DOMAIN c[i].calls
      BY <1>1, <1>4, <2>1 DEF Owed
    <3>2. i \in DOMAIN c
      BY <2>1, <3>1
    <3> QED
      BY <1>1, <3>1, <3>2
  <2>2. CASE j = Len(c) + 1
    <3>1. a \in 1 .. j - 1 /\ j - a = n
      BY <1>2, <2>2
    <3> QED
      BY <1>2, <3>1
  <2> QED
    BY <1>1, <1>4, <2>1, <2>2
<1>5. d[a].role = "assistant" /\ Len(d) = a + (n + 1) - 1
  BY <1>1, <1>2 DEF Owed
<1> QED
  BY <1>2, <1>3, <1>4, <1>5 DEF Owed, d

\* With its last answer paid the conversation is in order.
LEMMA PaidIsAnswered ==
    ASSUME NEW c \in Seq(MessageSet), NEW a \in DOMAIN c,
           Owed(c, a, Len(c[a].calls) + 1)
    PROVE  Answered(c)
<1>1. \A i \in DOMAIN c : DOMAIN c[i].calls = 1 .. Len(c[i].calls)
  BY MessageOf
<1>2. ASSUME NEW i \in DOMAIN c, NEW k \in DOMAIN c[i].calls
      PROVE  i # a \/ k < Len(c[a].calls) + 1
  BY <1>1, <1>2
<1> QED
  BY <1>2 DEF Owed, Answered

-----------------------------------------------------------------------------
(* The steps.                                                              *)

LEMMA InitSafe == ASSUME Init PROVE IInv
<1>1. Types
  <2>1. RequestParts \in Nat /\ ReplyPieces \in Nat /\ MaxSteps \in Nat
    BY HttpAssumption, AgentAssumption
  <2>2. HttpTypeOK
    <3>1. 0 \in 0 .. RequestParts /\ 0 \in 0 .. ReplyPieces /\ 0 \in Nat
      BY <2>1
    <3> QED
      BY <3>1 DEF Init, HttpInit, HttpTypeOK
  <2>3. TypeOK
    BY <2>1, <2>2 DEF Init, HttpInit, TypeOK
  <2>4. <<>> \in Seq(MessageSet) /\ <<>> \in Seq(Nat \X Nat)
    OBVIOUS
  <2> QED
    BY <2>3, <2>4 DEF Init, Types
<1>2. Protocol /\ RecordedWasGiven /\ Provenance /\ Spent
  BY DEF Init, HttpInit, Protocol, Answered, RecordedWasGiven, Provenance, Spent, RunOnce
<1> QED
  BY <1>1, <1>2 DEF IInv

\* A step that leaves the conversation, the commands and the place in the turn
\* alone, but for coming back to the prompt or to the next request.
LEMMA QuietKeeps ==
    ASSUME IInv, UNCHANGED <<conv, next, calls, ran, accepted>>, given \subseteq given',
           refused' \in Nat, refused' >= refused,
           pc' \in {"prompt", "step", "call", "done"}, pc # "tools"
    PROVE  Protocol' /\ RecordedWasGiven' /\ Spent'
<1>1. Protocol'
  BY DEF IInv, Types, TypeOK, HttpTypeOK, Protocol, Answered
<1>2. RecordedWasGiven'
  BY DEF IInv, RecordedWasGiven
<1>3. Spent'
  BY DEF IInv, Spent, RunOnce, Before
<1> QED
  BY <1>1, <1>2, <1>3

\* A line of the system or the user is said, or the session ends for want of
\* memory.
LEMMA SayingKeeps ==
    ASSUME IInv, NEW m \in MessageSet, m.role \notin {"tool", "assistant"}, m.calls = <<>>,
           Add_(m) \/ Lost, UNCHANGED <<next, calls, ran, accepted, given>>,
           pc' \in {"prompt", "step", "done"}, pc \notin {"tools", "record"}
    PROVE  Protocol' /\ RecordedWasGiven' /\ Spent' /\ conv' \in Seq(MessageSet)
<1>1. conv \in Seq(MessageSet) /\ refused \in Nat
  BY DEF IInv, Types, TypeOK, HttpTypeOK
<1>2. Spent'
  BY DEF IInv, Spent, RunOnce, Before
<1>3. CASE Add_(m)
  <2>1. conv' = Append(conv, m) /\ refused' = refused
    BY <1>3 DEF Add_, Granted
  <2>2. Protocol'
    <3>1. refused' = 0 => Answered(conv)
      BY <2>1 DEF IInv, Protocol
    <3>2. refused' = 0 => Answered(conv')
      BY <1>1, <2>1, <3>1, SayKeeps
    <3> QED
      BY <3>2 DEF Protocol
  <2>3. RecordedWasGiven'
    BY <1>1, <2>1 DEF IInv, RecordedWasGiven
  <2> QED
    BY <1>1, <1>2, <2>1, <2>2, <2>3
<1>4. CASE Lost
  BY <1>1, <1>2, <1>4 DEF Lost, Refuse, Protocol, IInv, RecordedWasGiven
<1> QED
  BY <1>3, <1>4

\* An assistant message enters the conversation.
LEMMA RecordKeeps ==
    ASSUME IInv, Record
    PROVE  Types' /\ Protocol' /\ RecordedWasGiven' /\ Spent'
<1> DEFINE m == Message("assistant", Replayed(calls), "none")
<1>1. /\ conv \in Seq(MessageSet) /\ refused \in Nat /\ calls \in Seq(CallSet)
      /\ refused = 0 => Answered(conv)
      /\ Replayed(calls) \in given
  BY DEF IInv, Types, TypeOK, HttpTypeOK, Record, Protocol, Provenance
<1>2. /\ Replayed(calls) \in Seq(CallSet) /\ Len(Replayed(calls)) = Len(calls)
      /\ Len(calls) \in Nat
  BY <1>1, ReplayedKeeps
<1>3. m \in MessageSet /\ m.role = "assistant" /\ m.calls = Replayed(calls)
  <2>1. m \in MessageSet
    BY <1>2, MessageIn
  <2>2. m.role = "assistant" /\ m.calls = Replayed(calls)
    BY DEF Message
  <2> QED
    BY <2>1, <2>2
<1> HIDE DEF m
<1>4. /\ pc = "record" /\ next' = 1 /\ pc' = IF calls = <<>> THEN "prompt" ELSE "tools"
      /\ UNCHANGED <<step, calls, asked, accepted, ran, given, http, lacks, sent, open,
                     reply, came>>
      /\ \/ conv' = Append(conv, m) /\ refused' = refused
         \/ conv' = conv /\ refused' = refused + 1
  BY DEF Record, m, Add_, Lost, Granted, Refuse, pastVars, linkVars
<1>5. Spent'
  BY <1>4 DEF IInv, Spent, RunOnce, Before, Types
<1>6. RecordedWasGiven' /\ conv' \in Seq(MessageSet)
  <2>1. given' = given /\ \A i \in DOMAIN conv :
                            conv[i].role = "assistant" => conv[i].calls \in given
    BY <1>4 DEF IInv, RecordedWasGiven
  <2>2. m.calls \in given
    BY <1>1, <1>3
  <2>3. CASE conv' = conv
    BY <1>1, <2>1, <2>3 DEF RecordedWasGiven
  <2>4. CASE conv' = Append(conv, m)
    <3>1. conv' \in Seq(MessageSet)
      BY <1>1, <1>3, <2>4
    <3>2. /\ DOMAIN conv' = DOMAIN conv \cup {Len(conv) + 1}
          /\ conv'[Len(conv) + 1] = m
          /\ \A i \in DOMAIN conv : conv'[i] = conv[i]
      BY <1>1, <1>3, <2>4
    <3>3. RecordedWasGiven'
      BY <2>1, <2>2, <3>2, Zenon DEF RecordedWasGiven
    <3> QED
      BY <3>1, <3>3
  <2> QED
    BY <1>4, <2>3, <2>4
<1>7. Protocol'
  <2>1. CASE conv' = conv /\ refused' = refused + 1
    BY <1>1, <2>1 DEF Protocol
  <2>2. CASE conv' = Append(conv, m) /\ refused' = refused
    <3> SUFFICES ASSUME refused' = 0
                 PROVE  /\ pc' # "tools" => Answered(conv')
                        /\ pc' = "tools" => \E a \in DOMAIN conv' :
                             Owed(conv', a, next') /\ conv'[a].calls = Replayed(calls')
      BY DEF Protocol
    <3> DEFINE a == Len(conv) + 1
    <3>1. Owed(conv', a, 1) /\ a \in DOMAIN conv' /\ conv'[a].calls = Replayed(calls)
      BY <1>1, <1>3, <2>2, AskOwes
    <3>2. CASE calls = <<>>
      <4>1. Owed(conv', a, Len(conv'[a].calls) + 1)
        BY <1>2, <3>1, <3>2
      <4>2. Answered(conv')
        BY <1>6, <3>1, <4>1, PaidIsAnswered
      <4> QED
        BY <1>4, <3>2, <4>2
    <3>3. CASE calls # <<>>
      BY <1>4, <3>1, <3>3
    <3> QED
      BY <3>2, <3>3
  <2> QED
    BY <1>4, <2>1, <2>2
<1>8. Types'
  <2>1. calls # <<>> => 1 \in DOMAIN calls
    BY <1>1
  <2> QED
    BY <1>4, <1>6, <2>1 DEF IInv, Types, TypeOK, HttpTypeOK
<1> QED
  BY <1>5, <1>6, <1>7, <1>8

\* A call is answered, or its answer lost.
LEMMA AnsweringKeeps ==
    ASSUME IInv, pc = "tools", Onward, Add_(Answer) \/ Lost \/ (Refuse /\ conv' = Append(conv, Answer)),
           UNCHANGED <<calls, given, accepted, http, lacks, sent, open, reply, came>>
    PROVE  Protocol' /\ RecordedWasGiven'
<1>1. /\ conv \in Seq(MessageSet) /\ refused \in Nat /\ calls \in Seq(CallSet)
      /\ next \in Nat /\ next \in DOMAIN calls /\ Len(calls) \in Nat
      /\ DOMAIN calls = 1 .. Len(calls)
  BY DEF IInv, Types, TypeOK, HttpTypeOK
<1>2. Answer \in MessageSet /\ Answer.role = "tool" /\ Answer.calls = <<>>
      /\ Answer.id = calls[next].id
  <2>1. calls[next] \in CallSet
    BY <1>1
  <2> QED
    BY <2>1 DEF Answer, Message, MessageSet, CallSet
<1>3. \/ conv' = Append(conv, Answer) /\ refused' = refused
      \/ refused' = refused + 1 /\ (conv' = conv \/ conv' = Append(conv, Answer))
  BY DEF Add_, Lost, Granted, Refuse
<1>4. RecordedWasGiven'
  <2>1. CASE conv' = conv
    BY <2>1 DEF IInv, RecordedWasGiven
  <2>2. CASE conv' = Append(conv, Answer)
    BY <1>1, <1>2, <2>2 DEF IInv, RecordedWasGiven
  <2> QED
    BY <1>3, <2>1, <2>2
<1>5. CASE refused' = refused + 1
  BY <1>1, <1>4, <1>5 DEF Protocol
<1>6. CASE conv' = Append(conv, Answer) /\ refused' = refused
  <2> SUFFICES ASSUME refused = 0
               PROVE  /\ pc' # "tools" => Answered(conv')
                      /\ pc' = "tools" => \E a \in DOMAIN conv' :
                           Owed(conv', a, next') /\ conv'[a].calls = Replayed(calls')
    BY <1>4, <1>6 DEF Protocol
  <2>1. PICK a \in DOMAIN conv : Owed(conv, a, next) /\ conv[a].calls = Replayed(calls)
    BY DEF IInv, Protocol
  <2>2. /\ Replayed(calls) \in Seq(CallSet) /\ Len(Replayed(calls)) = Len(calls)
        /\ Replayed(calls)[next].id = calls[next].id
    BY <1>1, ReplayedKeeps
  <2>3. next \in DOMAIN conv[a].calls
    BY <1>1, <2>1, <2>2
  <2>4. Owed(conv', a, next + 1)
    BY <1>1, <1>2, <1>6, <2>1, <2>2, <2>3, AnswerPays
  <2>5. conv' \in Seq(MessageSet) /\ a \in DOMAIN conv' /\ conv'[a] = conv[a]
    BY <1>1, <1>2, <1>6
  <2>6. CASE next = Len(calls)
    <3>1. Len(conv'[a].calls) = next
      BY <2>1, <2>2, <2>5, <2>6
    <3>2. Answered(conv')
      BY <2>4, <2>5, <3>1, PaidIsAnswered
    <3> QED
      BY <2>6, <3>2 DEF Onward
  <2>7. CASE next # Len(calls)
    BY <2>1, <2>4, <2>5, <2>7 DEF Onward
  <2> QED
    BY <2>6, <2>7
<1> QED
  BY <1>3, <1>4, <1>5, <1>6

\* A command is run on its turn, once.
LEMMA RunningKeeps ==
    ASSUME IInv, pc = "tools", UNCHANGED <<accepted, calls>>,
           \/ ran' = Append(ran, <<accepted, next>>) \/ ran' = ran,
           \/ next' = next + 1 /\ pc' \in {"tools", "step"}
           \/ pc' = "crash"
    PROVE  Spent' /\ ran' \in Seq(Nat \X Nat)
<1>1. ran \in Seq(Nat \X Nat) /\ accepted \in Nat /\ next \in Nat
  BY DEF IInv, Types
<1>2. \A n \in DOMAIN ran : ran[n][1] \in Nat /\ ran[n][2] \in Nat
  BY <1>1
<1>3. CASE ran' = ran
  BY <1>1, <1>2, <1>3 DEF IInv, Spent, RunOnce, Before
<1>4. CASE ran' = Append(ran, <<accepted, next>>)
  <2> DEFINE new == <<accepted, next>>
  <2>1. /\ DOMAIN ran = 1 .. Len(ran) /\ Len(ran) \in Nat
        /\ DOMAIN ran' = 1 .. Len(ran) + 1
        /\ \A n \in DOMAIN ran : ran'[n] = ran[n]
        /\ ran'[Len(ran) + 1] = new
        /\ ran' \in Seq(Nat \X Nat)
    BY <1>1, <1>4
  <2>2. \A n \in DOMAIN ran : Before(ran[n], new)
    <3>1. \A n \in DOMAIN ran :
            ran[n][1] <= accepted /\ (ran[n][1] = accepted => ran[n][2] < next)
      BY DEF IInv, Spent
    <3> QED
      BY <1>1, <1>2, <3>1 DEF Before
  <2>3. RunOnce'
    <3> HIDE DEF new
    <3>1. \A m, n \in DOMAIN ran : m < n => Before(ran[m], ran[n])
      BY DEF IInv, Spent, RunOnce
    <3>2. ASSUME NEW m \in DOMAIN ran', NEW n \in DOMAIN ran', m < n
          PROVE  Before(ran'[m], ran'[n])
      <4>1. m \in DOMAIN ran
        BY <2>1, <3>2
      <4>2. CASE n \in DOMAIN ran
        BY <2>1, <3>1, <3>2, <4>1, <4>2
      <4>3. CASE n = Len(ran) + 1
        BY <2>1, <2>2, <4>1, <4>3
      <4> QED
        BY <2>1, <3>2, <4>2, <4>3
    <3> QED
      BY <3>2 DEF RunOnce
  <2>4. \A n \in DOMAIN ran' :
           /\ ran'[n][1] <= accepted
           /\ pc' = "tools" /\ ran'[n][1] = accepted => ran'[n][2] < next + 1
    <3>1. \A n \in DOMAIN ran :
            ran[n][1] <= accepted /\ (ran[n][1] = accepted => ran[n][2] < next)
      BY DEF IInv, Spent
    <3>2. new[1] = accepted /\ new[2] = next
      OBVIOUS
    <3> HIDE DEF new
    <3>3. ASSUME NEW n \in DOMAIN ran'
          PROVE  ran'[n][1] <= accepted
                 /\ (ran'[n][1] = accepted => ran'[n][2] < next + 1)
      <4>1. CASE n \in DOMAIN ran
        <5>1. ran'[n] = ran[n] /\ ran[n][2] \in Nat
          BY <1>2, <2>1, <4>1
        <5>2. ran[n][1] <= accepted /\ (ran[n][1] = accepted => ran[n][2] < next)
          BY <3>1, <4>1
        <5>3. ASSUME NEW k \in Nat, k < next
              PROVE  k < next + 1
          BY <1>1, <5>3
        <5> QED
          BY <5>1, <5>2, <5>3
      <4>2. CASE n = Len(ran) + 1
        <5>1. ran'[n] = new
          BY <2>1, <4>2
        <5> QED
          BY <1>1, <3>2, <5>1
      <4> QED
        BY <2>1, <3>3, <4>1, <4>2
    <3> QED
      BY <3>3
  <2> QED
    BY <2>1, <2>3, <2>4 DEF Spent
<1> QED
  BY <1>3, <1>4

\* Whatever is done with a call.
LEMMA ToolsKeep ==
    ASSUME IInv, RejectCall \/ RunCall \/ RunNothing \/ NoId
    PROVE  Types' /\ Protocol' /\ RecordedWasGiven' /\ Spent'
<1>1. /\ pc = "tools" /\ refused \in Nat
      /\ UNCHANGED <<calls, asked, accepted, given, http, lacks, sent, open, reply, came>>
      /\ \/ ran' = Append(ran, <<accepted, next>>) \/ ran' = ran
  <2>1. refused \in Nat
    BY DEF IInv, Types, TypeOK, HttpTypeOK
  <2>2. CASE RejectCall
    BY <2>1, <2>2 DEF RejectCall, pastVars, linkVars
  <2>3. CASE RunCall
    BY <2>1, <2>3 DEF RunCall, linkVars
  <2>4. CASE RunNothing
    BY <2>1, <2>4 DEF RunNothing, pastVars, linkVars
  <2>5. CASE NoId
    BY <2>1, <2>5 DEF NoId, turnVars, linkVars
  <2> QED
    BY <2>2, <2>3, <2>4, <2>5
<1>2. CASE RejectCall \/ RunCall \/ RunNothing
  <2>1. Onward /\ (Add_(Answer) \/ Lost \/ (Refuse /\ conv' = Append(conv, Answer)))
    BY <1>2 DEF RejectCall, RunCall, RunNothing
  <2>2. Protocol' /\ RecordedWasGiven'
    BY <1>1, <2>1, AnsweringKeeps
  <2>3. next' = next + 1 /\ pc' \in {"tools", "step"}
    BY <2>1 DEF Onward
  <2>4. Spent' /\ ran' \in Seq(Nat \X Nat)
    BY <1>1, <2>3, RunningKeeps
  <2>5. Types'
    <3>1. /\ Types /\ next \in DOMAIN calls /\ calls \in Seq(CallSet)
          /\ Len(calls) \in Nat /\ DOMAIN calls = 1 .. Len(calls) /\ MaxSteps \in Nat
          /\ conv \in Seq(MessageSet)
      BY <1>1, AgentAssumption DEF IInv, Types, TypeOK
    <3>2. calls[next] \in CallSet
      BY <3>1
    <3>3. Answer \in MessageSet
      BY <3>2 DEF Answer, CallSet, Message, MessageSet
    <3>8. conv' = conv \/ conv' = Append(conv, Answer)
      BY <2>1 DEF Add_, Lost
    <3>4. conv' \in Seq(MessageSet)
      BY <3>1, <3>3, <3>8
    <3>5. refused' \in Nat
      BY <1>1, <2>1 DEF Add_, Lost, Refuse, Granted
    <3>6. pc' = "tools" => next' \in DOMAIN calls'
      BY <1>1, <2>1, <3>1 DEF Onward
    <3>7. step' \in 0 .. MaxSteps /\ (pc' = "tools" => step' < MaxSteps)
      <4>1. step \in 0 .. MaxSteps /\ step < MaxSteps
        BY <1>1, <3>1 DEF Types, TypeOK
      <4> QED
        BY <3>1, <4>1, <2>1 DEF Onward
    <3> QED
      BY <1>1, <2>3, <2>4, <3>1, <3>4, <3>5, <3>6, <3>7 DEF Types, TypeOK, HttpTypeOK
  <2> QED
    BY <2>2, <2>4, <2>5
<1>3. CASE NoId
  <2>1. pc' = "crash" /\ UNCHANGED <<conv, step, next>> /\ refused' = refused + 1
    BY <1>3 DEF NoId, Refuse, turnVars
  <2>2. Spent' /\ ran' \in Seq(Nat \X Nat)
    BY <1>1, <2>1, RunningKeeps
  <2>3. Types'
    BY <1>1, <2>1, <2>2 DEF IInv, Types, TypeOK, HttpTypeOK
  <2>4. Protocol' /\ RecordedWasGiven'
    BY <1>1, <2>1 DEF IInv, Protocol, RecordedWasGiven
  <2> QED
    BY <2>2, <2>3, <2>4
<1> QED
  BY <1>2, <1>3

\* The connection's own steps.
LEMMA ExchangeKeeps ==
    ASSUME IInv, Exchange
    PROVE  Types' /\ Provenance' /\ given \subseteq given'
<1>1. /\ Types /\ RequestParts \in Nat /\ ReplyPieces \in Nat /\ ReplyPieces >= 3
      /\ UNCHANGED <<pc, conv, step, calls, next, asked, accepted, ran>>
      /\ given \subseteq given'
      /\ HttpTypeOK
  BY HttpAssumption DEF IInv, Types, TypeOK, Exchange, Noted, turnVars, pastVars
<1>2. pc = "call"
  BY <1>1 DEF Exchange, HttpNext, Write, WriteFails, Read, EndOfReply, HostAnswers,
              HostCloses, Types, TypeOK
<1>3. HttpTypeOK'
  <2>1. CASE Write
    BY <1>1, <2>1 DEF Write, HttpTypeOK
  <2>2. CASE WriteFails
    BY <1>1, <2>2 DEF WriteFails, HttpTypeOK, linkVars
  <2>3. CASE Read
    BY <1>1, <2>3 DEF Read, HttpTypeOK, Granted, Refuse
  <2>4. CASE EndOfReply
    BY <1>1, <2>4 DEF EndOfReply, HttpTypeOK, linkVars, Granted, Refuse
  <2>5. CASE HostAnswers
    BY <1>1, <2>5 DEF HostAnswers, HttpTypeOK
  <2>6. CASE HostCloses
    BY <1>1, <2>6 DEF HostCloses, HttpTypeOK
  <2> QED
    BY <2>1, <2>2, <2>3, <2>4, <2>5, <2>6 DEF Exchange, HttpNext
<1>4. Types'
  BY <1>1, <1>2, <1>3 DEF Types, TypeOK
<1>5. Provenance'
  <2>1. ASSUME NEW r \in reply', came' = ReplyPieces, r.framed, r.ok, r.kind = "message"
        PROVE  Replayed(r.calls) \in given'
    <3>1. CASE r \in reply
      BY <2>1, <3>1 DEF Exchange, Noted
    <3>2. CASE r \notin reply
      <4>1. HostAnswers
        BY <2>1, <3>2 DEF Exchange, HttpNext, Write, WriteFails, Read, EndOfReply,
                          HostCloses, linkVars
      <4>2. came' = 0
        BY <4>1 DEF HostAnswers, IInv, Provenance
      <4> QED
        BY <1>1, <2>1, <4>2
    <3> QED
      BY <3>1, <3>2
  <2>2. http' = "stored" => \A r \in reply' : r.framed
    <3>1. CASE EndOfReply
      BY <1>1, <3>1 DEF EndOfReply, Splits, HttpTypeOK, linkVars
    <3>2. CASE ~EndOfReply
      BY <3>2 DEF Exchange, HttpNext, Write, WriteFails, Read, HostAnswers, HostCloses
    <3> QED
      BY <3>1, <3>2
  <2>3. reply' = {} => came' = 0
    BY DEF Exchange, HttpNext, Write, WriteFails, Read, EndOfReply, HostAnswers,
           HostCloses, linkVars, IInv, Provenance
  <2>4. pc' # "record"
    BY <1>1, <1>2
  <2> QED
    BY <2>1, <2>2, <2>3, <2>4 DEF Provenance
<1> QED
  BY <1>1, <1>4, <1>5

\* A reply is accepted or refused.
LEMMA JudgeKeeps ==
    ASSUME IInv, Judge
    PROVE  IInv'
<1>1. PICK r \in reply :
        /\ \/ /\ Accepts(r)
              /\ pc' = "record" /\ calls' = r.calls /\ accepted' = accepted + 1
              /\ Granted
           \/ /\ Granted \/ Refuse
              /\ pc' = "prompt" /\ UNCHANGED <<calls, accepted>>
  BY DEF Judge
<1>2. /\ pc = "call" /\ http = "stored" /\ http' = "idle"
      /\ UNCHANGED <<conv, step, next, asked, ran, given, lacks, sent, open, reply, came>>
      /\ Types /\ refused \in Nat /\ refused' \in Nat /\ refused' >= refused
  BY <1>1 DEF Judge, linkVars, IInv, Types, TypeOK, HttpTypeOK, Granted, Refuse
<1>3. CASE pc' = "prompt"
  <2>1. UNCHANGED <<calls, accepted>>
    BY <1>1, <1>3
  <2>2. Types'
    BY <1>2, <1>3, <2>1 DEF Types, TypeOK, HttpTypeOK
  <2>3. Provenance'
    BY <1>2, <1>3 DEF IInv, Provenance
  <2>4. Protocol' /\ RecordedWasGiven' /\ Spent'
    BY <1>2, <1>3, <2>1, QuietKeeps
  <2> QED
    BY <2>2, <2>3, <2>4 DEF IInv
<1>4. CASE pc' # "prompt"
  <2>1. Accepts(r) /\ pc' = "record" /\ calls' = r.calls /\ accepted' = accepted + 1
        /\ refused' = refused
    BY <1>1, <1>4 DEF Granted
  <2>2. calls' \in Seq(CallSet)
    BY <1>2, <2>1, AgentAssumption DEF Types, TypeOK, HttpTypeOK, CallSet
  <2>3. Types'
    BY <1>2, <2>1, <2>2 DEF Types, TypeOK, HttpTypeOK
  <2>4. Replayed(calls') \in given'
    BY <1>2, <2>1 DEF IInv, Provenance, Accepts, Parses
  <2>5. Provenance'
    BY <1>2, <2>1, <2>4 DEF IInv, Provenance
  <2>6. Protocol' /\ RecordedWasGiven'
    BY <1>2, <2>1 DEF IInv, Protocol, RecordedWasGiven
  <2>7. \A n \in DOMAIN ran : ran[n][1] \in Nat
    BY <1>2 DEF Types
  <2>8. Spent'
    BY <1>2, <2>1, <2>7 DEF IInv, Spent, RunOnce, Types
  <2> QED
    BY <2>3, <2>5, <2>6, <2>8 DEF IInv
<1> QED
  BY <1>3, <1>4

\* However many parts found no memory, the refusals stay counted.
LEMMA ConnectedRefuses ==
    ASSUME IInv, Connected
    PROVE  refused' \in Nat /\ refused' >= refused
<1>1. RequestParts \in Nat /\ refused \in Nat
  BY HttpAssumption DEF IInv, Types, TypeOK, HttpTypeOK
<1>2. lacks' \subseteq 1 .. RequestParts /\ refused' = refused + Cardinality(lacks')
  BY DEF Connected
<1>3. IsFiniteSet(lacks')
  <2>1. IsFiniteSet(1 .. RequestParts)
    BY <1>1, FS_Interval
  <2> QED
    BY <1>2, <2>1, FS_Subset
<1>4. Cardinality(lacks') \in Nat
  BY <1>3, FS_CardinalityType
<1> QED
  BY <1>1, <1>2, <1>4

\* agent_main's steps, and the steps of run_turn before there is a reply.
LEMMA LoopKeeps ==
    ASSUME IInv, Start \/ EndOfInput \/ Question \/ OutOfSteps \/ Ask \/ CallFails
    PROVE  IInv'
<1>1. /\ Types /\ refused \in Nat /\ MaxSteps \in Nat /\ RequestParts \in Nat
      /\ ReplyPieces \in Nat /\ Provenance /\ conv \in Seq(MessageSet)
      /\ http # "idle" => pc = "call"
  BY AgentAssumption, HttpAssumption DEF IInv, Types, TypeOK, HttpTypeOK
<1>2. <<>> \in Seq(CallSet)
  OBVIOUS
<1>3. CASE Start
  <2> DEFINE m == Message("system", <<>>, "none")
  <2>1. m \in MessageSet
    BY <1>2, MessageIn
  <2>2. m.role = "system" /\ m.calls = <<>>
    BY DEF Message
  <2>3. /\ pc = "start" /\ pc' = "prompt" /\ (Add_(m) \/ Lost)
        /\ UNCHANGED <<step, next, calls, ran, accepted, given, http, lacks, sent, open,
                       reply, came>>
    BY <1>3 DEF Start, pastVars, linkVars
  <2> HIDE DEF m
  <2>4. Protocol' /\ RecordedWasGiven' /\ Spent' /\ conv' \in Seq(MessageSet)
    BY <2>1, <2>2, <2>3, SayingKeeps
  <2>5. refused' \in Nat
    BY <1>1, <2>3 DEF Add_, Lost, Granted, Refuse
  <2>6. Types'
    BY <1>1, <2>3, <2>4, <2>5 DEF Types, TypeOK, HttpTypeOK
  <2>7. Provenance'
    BY <1>1, <2>3 DEF Provenance
  <2> QED
    BY <2>4, <2>6, <2>7 DEF IInv
<1>4. CASE Question
  <2> DEFINE m == Message("user", <<>>, "none")
  <2>1. m \in MessageSet
    BY <1>2, MessageIn
  <2>2. m.role = "user" /\ m.calls = <<>>
    BY DEF Message
  <2>3. /\ pc = "prompt" /\ pc' \in {"step", "done"} /\ (Add_(m) \/ Lost) /\ step' = 0
        /\ UNCHANGED <<next, calls, ran, accepted, given, http, lacks, sent, open,
                       reply, came>>
    BY <1>4 DEF Question, linkVars
  <2> HIDE DEF m
  <2>4. Protocol' /\ RecordedWasGiven' /\ Spent' /\ conv' \in Seq(MessageSet)
    BY <2>1, <2>2, <2>3, SayingKeeps
  <2>5. refused' \in Nat
    BY <1>1, <2>3 DEF Add_, Lost, Granted, Refuse
  <2>6. Types'
    BY <1>1, <2>3, <2>4, <2>5 DEF Types, TypeOK, HttpTypeOK
  <2>7. Provenance'
    BY <1>1, <2>3 DEF Provenance
  <2> QED
    BY <2>4, <2>6, <2>7 DEF IInv
<1>5. CASE EndOfInput \/ OutOfSteps \/ Ask \/ CallFails
  <2>1. /\ UNCHANGED <<conv, step, next, calls, ran, accepted, given>>
        /\ pc \notin {"tools", "record"} /\ pc' \in {"prompt", "step", "call", "done"}
        /\ refused' \in Nat /\ refused' >= refused
    <3>1. /\ UNCHANGED <<conv, step, next, calls, ran, accepted, given>>
          /\ pc \notin {"tools", "record"} /\ pc' \in {"prompt", "step", "call", "done"}
      BY <1>1, <1>5 DEF EndOfInput, OutOfSteps, Ask, CallFails, AfterFailure, turnVars,
           pastVars
    <3>2. Connected \/ refused' \in {refused, refused + 1}
      BY <1>5 DEF EndOfInput, OutOfSteps, Ask, CallFails, httpVars, Granted, Refuse,
           CannotConnect
    <3>3. refused' \in Nat /\ refused' >= refused
      BY <1>1, <3>2, ConnectedRefuses
    <3> QED
      BY <3>1, <3>3
  <2>2. Protocol' /\ RecordedWasGiven' /\ Spent'
    BY <2>1, QuietKeeps
  <2>3. CASE EndOfInput \/ OutOfSteps \/ CallFails
    <3>1. /\ UNCHANGED linkVars /\ pc' # "call"
          /\ http' = "idle"
      BY <1>1, <2>3 DEF EndOfInput, OutOfSteps, CallFails, AfterFailure, httpVars
    <3>2. Types'
      BY <1>1, <2>1, <3>1 DEF Types, TypeOK, HttpTypeOK, linkVars
    <3>3. Provenance'
      BY <1>1, <2>1, <3>1 DEF Provenance, linkVars
    <3> QED
      BY <2>2, <3>2, <3>3 DEF IInv
  <2>4. CASE Ask
    <3>1. /\ pc = "step" /\ step < MaxSteps
          /\ \/ pc' = "call" /\ http' \in {"send", "failed"} /\ reply' = {} /\ came' = 0
                /\ sent' = 0 /\ open' \in BOOLEAN /\ lacks' \subseteq 1 .. RequestParts
             \/ pc' = "prompt" /\ http' = http /\ UNCHANGED linkVars
      BY <2>4 DEF Ask, StepsLeft, Connected, CannotConnect
    <3>4. HttpTypeOK'
      <4>1. 0 \in 0 .. RequestParts /\ 0 \in 0 .. ReplyPieces /\ HttpTypeOK
        BY <1>1 DEF Types, TypeOK
      <4>2. CASE pc' = "call"
        BY <2>1, <3>1, <4>1, <4>2 DEF HttpTypeOK
      <4>3. CASE pc' # "call"
        BY <2>1, <3>1, <4>1, <4>3 DEF HttpTypeOK, linkVars
      <4> QED
        BY <4>2, <4>3
    <3>5. http' # "idle" => pc' = "call"
      BY <1>1, <3>1
    <3>2. Types'
      BY <1>1, <2>1, <3>1, <3>4, <3>5 DEF Types, TypeOK
    <3>3. Provenance'
      BY <1>1, <2>1, <3>1 DEF Provenance, linkVars
    <3> QED
      BY <2>2, <3>2, <3>3 DEF IInv
  <2> QED
    BY <1>5, <2>3, <2>4
<1> QED
  BY <1>3, <1>4, <1>5

LEMMA StepSafe == ASSUME IInv, [Next]_vars PROVE IInv'
<1>1. CASE Start \/ EndOfInput \/ Question \/ OutOfSteps \/ Ask \/ CallFails
  BY <1>1, LoopKeeps
<1>2. CASE Judge
  BY <1>2, JudgeKeeps
<1>3. CASE Record
  <2>1. Types' /\ Protocol' /\ RecordedWasGiven' /\ Spent'
    BY <1>3, RecordKeeps
  <2>2. Provenance'
    BY <1>3 DEF Record, linkVars, IInv, Provenance
  <2> QED
    BY <2>1, <2>2 DEF IInv
<1>4. CASE RejectCall \/ RunCall \/ RunNothing \/ NoId
  <2>1. Types' /\ Protocol' /\ RecordedWasGiven' /\ Spent'
    BY <1>4, ToolsKeep
  <2>2. /\ UNCHANGED <<given, http, reply, came>>
        /\ pc' # "record"
    BY <1>4 DEF RejectCall, RunCall, RunNothing, NoId, Onward, linkVars
  <2>3. Provenance'
    BY <2>2 DEF IInv, Provenance
  <2> QED
    BY <2>1, <2>3 DEF IInv
<1>5. CASE Exchange
  <2>1. Types' /\ Provenance' /\ given \subseteq given'
    BY <1>5, ExchangeKeeps
  <2>2. /\ UNCHANGED <<pc, conv, next, calls, ran, accepted>>
        /\ refused \in Nat /\ refused' \in Nat /\ refused' >= refused /\ pc = "call"
    BY <1>5, <2>1 DEF Exchange, Noted, turnVars, pastVars, HttpNext, Write, WriteFails, Read,
         EndOfReply, HostAnswers, HostCloses, Granted, Refuse, IInv, Types, TypeOK, HttpTypeOK
  <2>3. Protocol' /\ RecordedWasGiven' /\ Spent'
    BY <2>1, <2>2, QuietKeeps
  <2> QED
    BY <2>1, <2>3 DEF IInv
<1>6. CASE UNCHANGED vars
  BY <1>6 DEF vars, turnVars, pastVars, httpVars, linkVars, IInv, Types, TypeOK, HttpTypeOK,
     Protocol, Answered, Owed, RecordedWasGiven, Provenance, Spent, RunOnce, Before
<1> QED
  BY <1>1, <1>2, <1>3, <1>4, <1>5, <1>6 DEF Next, Turn, Stopped

LEMMA InvSafe == ASSUME IInv PROVE WellFormed /\ RecordedWasGiven /\ RunOnce /\ TypeOK
BY DEF IInv, Types, TypeOK, Protocol, WellFormed, Spent

-----------------------------------------------------------------------------
\* Every request keeps the protocol of the chat as long as no allocation was
\* refused (run_turn with chat.c).
THEOREM AgentKeepsProtocol == Spec => []WellFormed
<1>1. Spec => []IInv
  BY InitSafe, StepSafe, PTL DEF Spec
<1> QED
  BY <1>1, InvSafe, PTL

\* Nothing is recorded but what the host sent whole with a 200 (llm_complete),
\* and no command is run twice or out of order (run_turn), whatever allocation
\* is refused.
THEOREM AgentSafe == Spec => [](RecordedWasGiven /\ RunOnce)
<1>1. Spec => []IInv
  BY InitSafe, StepSafe, PTL DEF Spec
<1> QED
  BY <1>1, InvSafe, PTL

\* The type invariant, with the limit on steps and the place among the calls.
THEOREM AgentTypes == Spec => []TypeOK
<1>1. Spec => []IInv
  BY InitSafe, StepSafe, PTL DEF Spec
<1> QED
  BY <1>1, InvSafe, PTL

\* No assistant message enters the conversation but one the host sent whole with
\* a 200 (llm_complete, run_turn), whatever allocation is refused.
THEOREM AgentRecordsGiven == Spec => []RecordedWasGiven
<1>1. Spec => []IInv
  BY InitSafe, StepSafe, PTL DEF Spec
<1> QED
  BY <1>1, InvSafe, PTL

-----------------------------------------------------------------------------
(* One call of shell_run.                                                  *)

\* The agent has not read more than was written, and has stopped reading only
\* because nobody could write any more, or because poll or read failed.
Drained ==
    /\ kept + dropped <= taken /\ taken <= written
    /\ place \in {"wait", "done"} /\ ~gave_up => out = {} /\ taken = written

\* A process that runs has left the agent's group, the shell is never away, and
\* it has been forked once the loop runs.
Groups ==
    /\ \A p \in Procs : Running(p) => grp[p] # "agent"
    /\ Running("sh") => grp["sh"] = "job"
    /\ place = "start" => /\ st = [p \in Procs |-> "none"]
                       /\ out = {} /\ written = 0 /\ taken = 0 /\ ~killed
    /\ Reading => st["sh"] # "none"
    /\ st["sh"] = "dead" => ended # "no"

\* After a kill that found the group the shell is dead, so nothing can join the
\* group again.
KillStays ==
    killed /\ ~missed => /\ st["sh"] = "dead"
                         /\ Running("bg") => grp["bg"] = "away"

ShellIInv == ShellTypeOK /\ OutputBounded /\ Drained /\ Groups /\ KillStays

LEMMA ShellInitSafe == ASSUME ShellInit PROVE ShellIInv
  <1>1. ShellTypeOK
    BY DEF ShellInit, ShellTypeOK, Procs
  <1>2. OutputBounded
    BY ShellAssumption DEF ShellInit, OutputBounded
  <1>3. Drained /\ Groups /\ KillStays
    BY DEF ShellInit, Drained, Groups, KillStays, Procs, Running, Reading
  <1> QED BY <1>1, <1>2, <1>3 DEF ShellIInv

\* What a kill does to the job, whoever issues it.
LEMMA KillJobKeeps ==
    ASSUME ShellTypeOK, Groups, KillStays, ~killed, place \in {"check", "poll"}, KillJob
    PROVE  /\ st' \in [Procs -> {"none", "forked", "running", "dead"}]
           /\ grp' = grp /\ written' = written /\ out' \subseteq out
           /\ ended' \in {"no", "zero", "nonzero", "signal"}
           /\ killed' = TRUE
           /\ missed' \in BOOLEAN
           /\ \A p \in Procs : st'[p] = "running" =>
                  Running(p) /\ grp[p] = "away"
           /\ st'["sh"] # "none"
           /\ ~missed' => st'["sh"] = "dead"
           /\ st'["sh"] = "dead" => ended' # "no"
  <1>1. /\ "sh" \in Procs /\ "bg" \in Procs
        /\ Victims \subseteq Procs
        /\ \A p \in Procs : p \in Victims <=> Running(p) /\ grp[p] = "job"
    BY DEF Procs, Victims
  <1>2. \A p \in Procs : st'[p] = IF p \in Victims THEN "dead" ELSE st[p]
    BY DEF KillJob
  <1>3. st["sh"] # "none" /\ (missed' <=> st["sh"] = "forked")
    BY DEF Groups, Reading, KillJob
  <1>4. \A p \in Procs : st'[p] = "running" => Running(p) /\ grp[p] = "away"
    BY <1>1, <1>2 DEF ShellTypeOK, Groups, Running
  <1>5. ~missed' => st'["sh"] = "dead"
    BY <1>1, <1>2, <1>3 DEF ShellTypeOK, Groups, Running
  <1>7. st'["sh"] = "dead" => ended' # "no"
    BY <1>1, <1>2 DEF KillJob, Groups
  <1>6. st' \in [Procs -> {"none", "forked", "running", "dead"}]
    BY <1>1 DEF KillJob, ShellTypeOK
  <1> QED
    BY <1>1, <1>2, <1>3, <1>4, <1>5, <1>6, <1>7 DEF KillJob, ShellTypeOK

-----------------------------------------------------------------------------
(* One lemma per kind of step.                                             *)

LEMMA CheckSafe == ASSUME ShellIInv, Check PROVE ShellIInv'
  <1> USE ShellAssumption DEF ShellIInv, Check, Due
  <1>1. CASE expired /\ ~killed
    <2>1. KillJob /\ timed_out' = TRUE
      BY <1>1
    <2>2. /\ st' \in [Procs -> {"none", "forked", "running", "dead"}]
          /\ grp' = grp /\ written' = written /\ out' \subseteq out
          /\ ended' \in {"no", "zero", "nonzero", "signal"}
          /\ killed' = TRUE /\ missed' \in BOOLEAN
          /\ \A p \in Procs : st'[p] = "running" => Running(p) /\ grp[p] = "away"
          /\ st'["sh"] # "none"
          /\ ~missed' => st'["sh"] = "dead"
          /\ st'["sh"] = "dead" => ended' # "no"
      BY <1>1, <2>1, KillJobKeeps
    <2>3. ShellTypeOK'
      BY <2>1, <2>2 DEF ShellTypeOK
    <2>4. OutputBounded' /\ Drained'
      BY <2>2 DEF OutputBounded, Drained
    <2>5. Groups' /\ KillStays'
      BY <2>2 DEF Groups, KillStays, Running, Reading, Procs
    <2> QED BY <2>3, <2>4, <2>5
  <1>2. CASE ~(expired /\ ~killed)
    BY <1>2 DEF ShellTypeOK, OutputBounded, Drained, Groups, KillStays, jobVars,
       Running, Reading
  <1> QED BY <1>1, <1>2

\* What is kept, lost and left in the pipe after one read, whether there was
\* memory for it or not.
LEMMA DrainCounts ==
    ASSUME ShellTypeOK, OutputBounded, kept + dropped <= taken, taken <= written, Drain
    PROVE  /\ taken' \in Nat /\ kept' \in Nat /\ dropped' \in Nat /\ truncated' \in BOOLEAN
           /\ kept' + dropped' <= taken' /\ taken' <= written
           /\ kept' <= MaxOutput
           /\ truncated' <=> kept' + dropped' < taken'
           /\ truncated' => kept' + dropped' >= MaxOutput
           /\ ~killed /\ Room # 0 /\ dropped' = 0 => taken' - kept' < Chunk
  <1> USE ShellAssumption DEF ShellTypeOK, OutputBounded
  <1>1. Got \in Nat /\ Got > 0 /\ Got <= Chunk /\ Got <= written - taken
    BY DEF Got, Least, InPipe, Drain
  <1>2. Room = MaxOutput - kept /\ Room \in Nat
    BY DEF Room
  <1>3. Keep = IF Got < Room THEN Got ELSE Room
    BY DEF Least, Keep
  <1>4. /\ taken' = taken + Got
        /\ \/ kept' = kept + Keep /\ dropped' = dropped
           \/ kept' = kept /\ dropped' = dropped + Keep /\ Keep > 0
        /\ truncated' = (truncated \/ Room < Got)
    BY DEF Drain, Appended, AppendRefused
  <1>5. /\ taken' \in Nat /\ kept' \in Nat /\ dropped' \in Nat
        /\ kept' + dropped' = kept + dropped + Keep
        /\ kept' + dropped' <= taken' /\ taken' <= written
    BY <1>1, <1>2, <1>3, <1>4
  <1>6. kept' <= MaxOutput /\ (Room < Got => kept' + dropped' >= MaxOutput)
    BY <1>1, <1>2, <1>3, <1>4
  <1>7. truncated' \in BOOLEAN
    BY <1>4
  <1>8. CASE truncated
    <2>1. kept + dropped < taken /\ kept + dropped >= MaxOutput
      BY <1>8
    <2>2. kept' + dropped' >= MaxOutput /\ kept' + dropped' < taken'
      BY <2>1, <1>1, <1>2, <1>3, <1>4
    <2>3. truncated'
      BY <1>4, <1>8
    <2>4. Room # 0 => dropped' # 0
      BY <2>1, <1>2, <1>3, <1>1, <1>4
    <2> QED BY <1>5, <1>6, <1>7, <2>2, <2>3, <2>4
  <1>9. CASE ~truncated
    <2>1. kept + dropped = taken
      BY <1>9
    <2>2. truncated' <=> Room < Got
      BY <1>4, <1>9
    <2>3. kept' + dropped' < taken' <=> Room < Got
      <3>1. kept' + dropped' = taken + Keep /\ taken' = taken + Got
        BY <2>1, <1>4, <1>5
      <3>2. Keep < Got <=> Room < Got
        BY <1>1, <1>2, <1>3
      <3>3. Keep \in Nat /\ Got \in Nat /\ taken \in Nat
        BY <1>1, <1>2, <1>3
      <3> HIDE DEF OutputBounded
      <3> QED
        BY <3>1, <3>2, <3>3
    <2>4. Room # 0 /\ dropped' = 0 => taken' - kept' < Chunk
      BY <2>1, <1>1, <1>2, <1>3, <1>4
    <2> QED BY <1>5, <1>6, <1>7, <2>2, <2>3, <2>4
  <1> QED BY <1>8, <1>9

LEMMA DrainSafe == ASSUME ShellIInv, Drain PROVE ShellIInv'
  <1> USE ShellAssumption DEF ShellIInv
  <1>1. /\ taken' \in Nat /\ kept' \in Nat /\ dropped' \in Nat /\ truncated' \in BOOLEAN
        /\ kept' + dropped' <= taken' /\ taken' <= written
        /\ kept' <= MaxOutput
        /\ truncated' <=> kept' + dropped' < taken'
        /\ truncated' => kept' + dropped' >= MaxOutput
        /\ ~killed /\ Room # 0 /\ dropped' = 0 => taken' - kept' < Chunk
    BY DrainCounts DEF Drained
  <1>2. place = "poll" /\ place' = "check"
    BY DEF Drain
  <1>3. CASE Room = 0 /\ ~killed
    <2>1. KillJob
      BY <1>3 DEF Drain
    <2>2. /\ st' \in [Procs -> {"none", "forked", "running", "dead"}]
          /\ grp' = grp /\ written' = written /\ out' \subseteq out
          /\ ended' \in {"no", "zero", "nonzero", "signal"}
          /\ killed' = TRUE /\ missed' \in BOOLEAN
          /\ \A p \in Procs : st'[p] = "running" => Running(p) /\ grp[p] = "away"
          /\ st'["sh"] # "none"
          /\ ~missed' => st'["sh"] = "dead"
          /\ st'["sh"] = "dead" => ended' # "no"
      BY <1>2, <1>3, <2>1, KillJobKeeps
    <2>3. ShellTypeOK'
      BY <1>1, <1>2, <2>2 DEF ShellTypeOK, Drain
    <2>4. OutputBounded' /\ Drained'
      BY <1>1, <1>2, <2>2 DEF OutputBounded, Drained
    <2>5. Groups' /\ KillStays'
      BY <1>2, <2>2 DEF Groups, KillStays, Running, Reading, Procs
    <2> QED BY <2>3, <2>4, <2>5
  <1>4. CASE ~(Room = 0 /\ ~killed)
    <2>1. UNCHANGED <<st, grp, out, written, ended, killed, missed, timed_out,
                      exit_code, expired, gave_up>>
      BY <1>4 DEF Drain, jobVars
    <2>2. ShellTypeOK'
      BY <1>1, <1>2, <2>1 DEF ShellTypeOK
    <2>3. OutputBounded' /\ Drained'
      BY <1>1, <1>2, <1>4, <2>1 DEF OutputBounded, Drained
    <2>4. Groups' /\ KillStays'
      BY <1>2, <2>1 DEF Groups, KillStays, Running, Reading
    <2> QED BY <2>2, <2>3, <2>4
  <1> QED BY <1>3, <1>4

\* The agent's other steps change neither what was read nor the processes, but
\* for the fork.
LEMMA ShellAgentSafe == ASSUME ShellIInv, Agent PROVE ShellIInv'
  <1> USE DEF ShellIInv
  <1>1. CASE Fork
    BY <1>1 DEF Fork, ShellTypeOK, OutputBounded, Drained, Groups, KillStays,
       Procs, Running, Reading
  <1>2. CASE CannotStart
    BY <1>2 DEF CannotStart, ShellTypeOK, OutputBounded, Drained, Groups, KillStays,
       jobVars, Running, Reading
  <1>3. CASE PollNothing \/ EndOfOutput
    BY <1>3 DEF PollNothing, EndOfOutput, AtEnd, ShellTypeOK, OutputBounded, Drained,
       Groups, KillStays, jobVars, Running, Reading, InPipe
  <1>4. CASE PollFails \/ ReadFails
    <2>1. /\ place = "poll" /\ place' = "wait" /\ gave_up' = TRUE
          /\ UNCHANGED <<killed, timed_out, truncated, exit_code, taken, kept, st, grp,
                         out, written, ended, expired, missed, dropped>>
      BY <1>4 DEF PollFails, ReadFails, jobVars
    <2>2. ShellTypeOK'
      BY <2>1 DEF ShellTypeOK
    <2>3. OutputBounded' /\ Drained'
      BY <2>1 DEF OutputBounded, Drained
    <2>4. Groups' /\ KillStays'
      BY <2>1 DEF Groups, KillStays, Running, Reading
    <2> QED BY <2>2, <2>3, <2>4
  <1>5. CASE Reap
    <2>1. exit_code' \in {"none", "zero", "nonzero", "signal"}
      BY <1>5 DEF Reap, ShellTypeOK, Groups
    <2> QED
      BY <1>5, <2>1 DEF Reap, ShellTypeOK, OutputBounded, Drained, Groups,
         KillStays, jobVars, Running, Reading
  <1> QED
    BY <1>1, <1>2, <1>3, <1>4, <1>5, CheckSafe, DrainSafe DEF Agent

\* The command's processes touch the agent's variables in no way, and write only
\* while the agent reads.
LEMMA ShellJobSafe == ASSUME ShellIInv, Job PROVE ShellIInv'
  <1> USE DEF ShellIInv
  <1>1. Job => UNCHANGED <<agentVars, expired, missed, gave_up, dropped>>
    BY DEF Job, Exec, CannotExec, Background, Leave, WriteOutput, CloseOutput, Exit
  <1>2. UNCHANGED <<place, killed, timed_out, truncated, exit_code, taken, kept,
                    expired, missed, gave_up, dropped>>
    BY <1>1 DEF agentVars
  <1>3. OutputBounded'
    BY <1>2 DEF OutputBounded
  <1> USE <1>2, <1>3 DEF ShellTypeOK, Drained, Groups, KillStays, Running, Reading,
          Procs
  <1>4. CASE Exec
    BY <1>4 DEF Exec
  <1>5. CASE CannotExec
    BY <1>5 DEF CannotExec
  <1>6. CASE Background
    BY <1>6 DEF Background
  <1>7. CASE Leave
    BY <1>7 DEF Leave
  <1>8. ASSUME NEW p \in Procs, WriteOutput(p) PROVE ShellIInv'
    BY <1>8 DEF WriteOutput, InPipe
  <1>9. ASSUME NEW p \in Procs, CloseOutput(p) PROVE ShellIInv'
    BY <1>9 DEF CloseOutput
  <1>10. ASSUME NEW p \in Procs, Exit(p) PROVE ShellIInv'
    BY <1>10 DEF Exit
  <1> QED
    BY <1>4, <1>5, <1>6, <1>7, <1>8, <1>9, <1>10 DEF Job

LEMMA ShellNextSafe == ASSUME ShellIInv, [ShellNext]_shellVars PROVE ShellIInv'
  <1>1. CASE Expire
    BY <1>1 DEF Expire, ShellIInv, ShellTypeOK, OutputBounded, Drained, Groups,
       KillStays, agentVars, jobVars, Running, Reading
  <1>2. CASE UNCHANGED shellVars
    BY <1>2 DEF shellVars, ShellIInv, ShellTypeOK, OutputBounded, Drained, Groups,
       KillStays, agentVars, jobVars, Running, Reading
  <1> QED
    BY <1>1, <1>2, ShellAgentSafe, ShellJobSafe DEF ShellNext, Finished

-----------------------------------------------------------------------------
\* Whatever the processes of the command do, whichever calls fail and whenever the
\* deadline falls: the output is bounded and what is cut off for the bound told; an
\* unmarked result is complete but for chunks that found no memory (dropped, which
\* the code does not tell) and for the pipe left unread when poll or read failed; and
\* a kill that found the group leaves nobody of it (shell.c:76-132).
THEOREM ShellSafe == ShellSpec => [](OutputBounded /\ NothingLost /\ JobGone)
  <1>1. ShellIInv => OutputBounded /\ NothingLost /\ JobGone
    <2> SUFFICES ASSUME ShellIInv PROVE OutputBounded /\ NothingLost /\ JobGone
      OBVIOUS
    <2>1. OutputBounded
      BY DEF ShellIInv
    <2>2. NothingLost
      <3>1. kept \in Nat /\ taken \in Nat /\ dropped \in Nat
        BY DEF ShellIInv, ShellTypeOK
      <3>2. ~truncated => ~(kept + dropped < taken)
        BY DEF ShellIInv, OutputBounded
      <3>4. kept + dropped <= taken
        BY DEF ShellIInv, Drained
      <3>5. place = "done" /\ ~gave_up => taken = written
        BY DEF ShellIInv, Drained
      <3> QED BY <3>1, <3>2, <3>4, <3>5 DEF NothingLost
    <2>3. JobGone
      BY DEF ShellIInv, KillStays, JobGone, Running, Procs
    <2> QED BY <2>1, <2>2, <2>3
  <1> QED BY <1>1, ShellInitSafe, ShellNextSafe, PTL DEF ShellSpec

\* The variables keep their types.
THEOREM ShellTypes == ShellSpec => []ShellTypeOK
  <1>1. ShellIInv => ShellTypeOK
    BY DEF ShellIInv
  <1> QED BY <1>1, ShellInitSafe, ShellNextSafe, PTL DEF ShellSpec

\* What is kept fits the limit, and for every limit and chunk the result is marked
\* truncated exactly if something read is in it neither nor among the bytes that found
\* no memory: those leave no mark.  While memory lasts less than a chunk is thrown
\* away before a kill (the reading loop of shell_run).
THEOREM ShellOutputBounded == ShellSpec => []OutputBounded
  <1>1. ShellIInv => OutputBounded
    BY DEF ShellIInv
  <1> QED BY <1>1, ShellInitSafe, ShellNextSafe, PTL DEF ShellSpec

\* When shell_run returns after a kill that found the job's group, no process of
\* the command runs on but one that has left the group (the two kills and the waitpid).
THEOREM ShellJobGone == ShellSpec => []JobGone
  <1>1. ShellIInv => JobGone
    BY DEF ShellIInv, KillStays, JobGone, Running, Procs
  <1> QED BY <1>1, ShellInitSafe, ShellNextSafe, PTL DEF ShellSpec
=============================================================================
