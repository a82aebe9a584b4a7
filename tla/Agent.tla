------------------------------- MODULE Agent -------------------------------
(***************************************************************************)
(* The guest agent's conversation (agentos/src/agent.c, chat.c, llm.c):    *)
(* each question is a turn of requests, each carrying the conversation so  *)
(* far; a reply is judged, recorded, and the commands it asks for are run  *)
(* and answered.  The POST itself is HttpPost; a command is one call of    *)
(* shell_run, which module Shell takes apart.                              *)
(*                                                                         *)
(* A tool call is its id and what chat_decode_tool_call makes of its name  *)
(* and arguments.  A message is a record; calls is what an assistant       *)
(* message asks for, id the call a tool message answers.                   *)
(***************************************************************************)
EXTENDS HttpPost

CONSTANTS MaxSteps,      \* config->max_steps
          MaxQuestions   \* bound: questions asked

Names == {"shell", "other", "none"}
Arguments == {"command", "other", "none"}

ASSUME AgentAssumption ==
    /\ MaxSteps \in Nat
    /\ MaxQuestions \in Nat
    /\ \A r \in Replies :
         /\ r.ok \in BOOLEAN                    \* HTTP 200
         /\ r.kind \in {"message", "error", "nothing", "junk"}
         /\ r.calls \in Seq([id : STRING, name : Names, args : Arguments])

VARIABLES
    pc,        \* "start", "prompt", "step", "call", "record", "tools", "done", "crash"
    conv,      \* conversation->messages
    step,      \* requests of this turn
    calls,     \* reply.tool_calls
    next,      \* which of them is dealt with
    asked,     \* history: questions so far
    accepted,  \* history: replies accepted so far
    ran,       \* history: the commands run, as <<reply, call>>
    given      \* history: the messages the host has sent whole, with a 200

turnVars == <<conv, step, calls, next>>
pastVars == <<asked, accepted, ran>>
vars == <<pc, turnVars, pastVars, given, httpVars>>

Message(role, cs, id) == [role |-> role, calls |-> cs, id |-> id]

\* chat_serialise_assistant: what is missing is filled in.
Replayed(cs) ==
    [k \in DOMAIN cs |->
       [cs[k] EXCEPT !.name = IF @ = "none" THEN "shell" ELSE @,
                     !.args = IF @ = "none" THEN "other" ELSE @]]

\* chat_decode_tool_call.
Decodes(call) == call.name = "shell" /\ call.args = "command"

\* Appended, unless there is no memory, which only add_text's caller looks at.
Add_(m) == conv' = Append(conv, m) /\ Granted
Lost    == conv' = conv /\ Refuse

Init ==
    /\ HttpInit
    /\ pc = "start"
    /\ conv = <<>>
    /\ step = 0
    /\ calls = <<>>
    /\ next = 1
    /\ asked = 0
    /\ accepted = 0
    /\ ran = <<>>
    /\ given = {}

-----------------------------------------------------------------------------
(* agent_main.                                                             *)

Start ==
    /\ pc = "start"
    /\ pc' = "prompt"
    /\ Add_(Message("system", <<>>, "none")) \/ Lost
    /\ UNCHANGED <<step, calls, next, pastVars, given, http, linkVars>>

\* The end of the input, or no memory for a line, which read_line tells alike.
EndOfInput ==
    /\ pc = "prompt"
    /\ pc' = "done"
    /\ Granted \/ Refuse
    /\ UNCHANGED <<turnVars, pastVars, given, http, linkVars>>

\* A line that is not blank; without memory for it the session ends.
Question ==
    /\ pc = "prompt"
    /\ asked < MaxQuestions
    /\ asked' = asked + 1
    /\ step' = 0
    /\ \/ pc' = "step" /\ Add_(Message("user", <<>>, "none"))
       \/ pc' = "done" /\ Lost
    /\ UNCHANGED <<calls, next, accepted, ran, given, http, linkVars>>

-----------------------------------------------------------------------------
(* run_turn.                                                               *)

StepsLeft_OneMore == step <= MaxSteps
StepsLeft == step < MaxSteps

AfterFailure_Retry == "step"
AfterFailure == "prompt"

\* Stopped after max_steps without a final answer.
OutOfSteps ==
    /\ pc = "step"
    /\ ~StepsLeft
    /\ pc' = "prompt"
    /\ UNCHANGED <<turnVars, pastVars, given, httpVars>>

\* llm_complete builds the request and posts it.
Ask ==
    /\ pc = "step"
    /\ StepsLeft
    /\ \/ pc' = "call" /\ (Connected \/ CannotConnect)
       \/ pc' = "prompt" /\ Refuse /\ UNCHANGED <<http, linkVars>>
    /\ UNCHANGED <<turnVars, pastVars, given>>

\* A failed call is told to the user and ends the turn.
CallFails ==
    /\ pc = "call"
    /\ http = "failed"
    /\ http' = "idle"
    /\ pc' = AfterFailure
    /\ UNCHANGED <<turnVars, pastVars, given, linkVars, refused>>

\* llm_parse_reply finds a message: a body cut short is not JSON (Json.tla), a
\* refusal has an error instead; and llm_complete wants a 200 besides.
Parses(r) == r.kind = "message" /\ came = ReplyPieces
Accepts_AnyStatus(r) == Parses(r)
Accepts(r) == Parses(r) /\ r.ok

\* The reply is read.  Where memory runs out in the parser, or for the calls,
\* the call fails.
Judge ==
    /\ pc = "call"
    /\ http = "stored"
    /\ http' = "idle"
    /\ \E r \in reply :
         \/ /\ Accepts(r)
            /\ pc' = "record"
            /\ calls' = r.calls
            /\ accepted' = accepted + 1
            /\ Granted
         \/ /\ \/ ~Accepts(r) /\ Granted
               \/ Accepts(r) /\ Refuse
            /\ pc' = "prompt"
            /\ UNCHANGED <<calls, accepted>>
    /\ UNCHANGED <<conv, step, next, asked, ran, given, linkVars>>

\* The message goes into the conversation as chat_serialise_assistant wrote it,
\* if it could; with no call the turn is over.
Record ==
    /\ pc = "record"
    /\ Add_(Message("assistant", Replayed(calls), "none")) \/ Lost
    /\ pc' = IF calls = <<>> THEN "prompt" ELSE "tools"
    /\ next' = 1
    /\ UNCHANGED <<step, calls, pastVars, given, http, linkVars>>

Onward_LimitInside ==
    /\ next' = next + 1
    /\ pc' = IF step + 1 >= MaxSteps \/ next = Len(calls) THEN "step" ELSE "tools"
    /\ step' = step + 1
Onward_Again ==
    /\ next' = IF refused' = refused THEN next + 1 ELSE next
    /\ pc' = IF next' > Len(calls) THEN "step" ELSE "tools"
    /\ step' = IF next' > Len(calls) THEN step + 1 ELSE step
\* After the last call the loop comes round.
Onward ==
    /\ next' = next + 1
    /\ pc' = IF next = Len(calls) THEN "step" ELSE "tools"
    /\ step' = IF next = Len(calls) THEN step + 1 ELSE step

Answer == Message("tool", <<>>, calls[next].id)

\* A call that was not understood is answered with what was wrong with it.
RejectCall ==
    /\ pc = "tools"
    /\ ~Decodes(calls[next])
    /\ Add_(Answer) \/ Lost
    /\ Onward
    /\ UNCHANGED <<calls, pastVars, given, http, linkVars>>

\* A command is run, and its output is the answer, if there is memory for it.
RunCall ==
    /\ pc = "tools"
    /\ Decodes(calls[next])
    /\ ran' = Append(ran, <<accepted, next>>)
    /\ Add_(Answer) \/ Lost
    /\ Onward
    /\ UNCHANGED <<calls, asked, accepted, given, http, linkVars>>

\* A call whose command, or whose complaint, found no memory: the shell is run
\* on nothing, and what it says is the answer.
RunNothing ==
    /\ pc = "tools"
    /\ Refuse
    /\ conv' = Append(conv, Answer)
    /\ Onward
    /\ UNCHANGED <<calls, pastVars, given, http, linkVars>>

\* A call whose id found no memory: its answer takes the length of NULL.  The
\* command has run.
NoId ==
    /\ pc = "tools"
    /\ Refuse
    /\ pc' = "crash"
    /\ ran' = IF Decodes(calls[next]) THEN Append(ran, <<accepted, next>>) ELSE ran
    /\ UNCHANGED <<turnVars, asked, accepted, given, http, linkVars>>

-----------------------------------------------------------------------------
(* The connection runs by itself; what the host got across is noted.       *)

Noted ==
    /\ given' = given \cup {Replayed(r.calls) : r \in
                  {r \in reply : r.framed /\ r.ok /\ r.kind = "message"
                                 /\ came' = ReplyPieces}}
    /\ UNCHANGED <<pc, turnVars, pastVars>>

Exchange == HttpNext /\ Noted

Stopped == pc \in {"done", "crash"} /\ UNCHANGED vars

Turn == OutOfSteps \/ Ask \/ CallFails \/ Judge \/ Record \/ RejectCall \/ RunCall
        \/ RunNothing \/ NoId

Next == Start \/ EndOfInput \/ Question \/ Turn \/ Exchange \/ Stopped

Spec == Init /\ [][Next]_vars

\* The agent goes on, and a host closes in the end once it has a complete request;
\* nothing makes the user type or a starved host give up.
FairSpec ==
    /\ Spec
    /\ WF_vars(Turn)
    /\ WF_vars((Write \/ WriteFails \/ EndOfReply) /\ Noted)
    /\ WF_vars(Complete /\ HostCloses /\ Noted)

-----------------------------------------------------------------------------
(* Properties.                                                             *)

TypeOK ==
    /\ HttpTypeOK
    /\ pc \in {"start", "prompt", "step", "call", "record", "tools", "done", "crash"}
    /\ http # "idle" => pc = "call"
    /\ step \in 0 .. MaxSteps
    /\ pc = "tools" => next \in DOMAIN calls

\* The rule of the chat protocol: every call of an assistant message is answered
\* right after it, in order, and nothing else is an answer.
Answered(c) ==
    /\ \A i \in DOMAIN c : \A k \in DOMAIN c[i].calls :
         /\ i + k \in DOMAIN c
         /\ c[i + k].role = "tool"
         /\ c[i + k].id = c[i].calls[k].id
    /\ \A j \in DOMAIN c : c[j].role = "tool" =>
         \E i \in 1 .. j - 1 : j - i \in DOMAIN c[i].calls

\* As long as no allocation was refused, every request the agent sends keeps the
\* protocol, whatever was called, misunderstood, cut short or refused before.
WellFormed == http # "idle" /\ refused = 0 => Answered(conv)

\* The conversation holds no assistant message but those the host sent whole
\* with a 200: none from a reply cut short or refused.
RecordedWasGiven ==
    \A i \in DOMAIN conv : conv[i].role = "assistant" => conv[i].calls \in given

Before(a, b) == a[1] < b[1] \/ (a[1] = b[1] /\ a[2] < b[2])

\* No command is run twice or out of order, whatever could not be recorded.
RunOnce == \A m, n \in DOMAIN ran : m < n => Before(ran[m], ran[n])

\* Each question is done with in the end: the user is asked again, or the
\* program is over, unless the host waits for the end of a head or for a body that
\* found no memory (http.c:84-90): then both wait, for neither has a timeout.
TurnEnds ==
    pc \in {"step", "call", "record", "tools"} ~>
      (pc \in {"prompt", "done", "crash"} \/ Starved)
=============================================================================
