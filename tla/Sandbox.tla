------------------------------ MODULE Sandbox ------------------------------
(***************************************************************************)
(* AgentSandbox and its console: boot, exec and dispose called in any      *)
(* order, also while another call is suspended at a yield, over a shell    *)
(* that reads lines and writes text on one console.                        *)
(*                                                                         *)
(* The event loop runs one call at a time.  A call gives way between a     *)
(* step of the machine and the next look for its marker, so a call in      *)
(* "step" has the thread and the guest, which moves in no other state.     *)
(*                                                                         *)
(* Text is a sequence of tokens, what has come since the last beginWait:   *)
(* nothing older is looked at but for the tail of a run that was stopped,  *)
(* whose text is left out.  A marker comes whole: half of it is nothing to *)
(* the console.  The status behind it comes on its own, and its digits may *)
(* come apart, for the guest's driver hands over a line in pieces.         *)
(***************************************************************************)
EXTENDS Integers, Sequences, FiniteSets

CONSTANTS Calls,      \* bound: calls of exec
          Kinds,      \* of command: "ends", in time or not, perhaps having read a
                      \* line; "deaf" to Ctrl-C; "off" shuts the guest down; any
                      \* of them may leave a process in the background
          MaxBusy,    \* bound: calls in progress at once
          JobsMixed,  \* bound: calls overlap also while a process is in the background
          Restored,   \* the sandbox comes from a snapshot
          AutoMount   \* a shared folder is configured and mounted by boot

ASSUME KindsAssumption ==
    Kinds \subseteq {"ends", "deaf", "off"}
ASSUME CallsAssumption ==
    "boot" \notin Calls /\ {AutoMount, Restored, JobsMixed} \subseteq BOOLEAN

VARIABLES
    machine,    \* "none", "on" or "off" (the guest has shut down)
    booted, sequence,
    call,       \* the calls, boot's among them
    out,        \* text since beginWait
    scan,       \* tokens of it already searched
    marker,     \* what is waited for
    input,      \* lines queued for the guest, or in its terminal
    shell,      \* the command the shell runs
    quiet,      \* stty -echo has run
    last,       \* what $? says
    owed,       \* the status still to be written behind an end marker
    jobs,       \* the commands that have left a process in the background
    wrote       \* history: the last command that wrote something

hostVars == <<machine, booted, sequence, call>>
consoleVars == <<out, scan, marker>>
guestVars == <<shell, quiet, last, owed, jobs, wrote>>
vars == <<hostVars, consoleVars, input, guestVars>>

Threads == Calls \cup {"boot"}
Prompt == -1
Null == -2           \* no exit status could be read
Killed == -3         \* the status of a command that did not end by itself
Torn == -4           \* the first digits of a status
NoLine == [what |-> "none", seq |-> Null, kind |-> "none"]
Line(what, n, kind) == [what |-> what, seq |-> n, kind |-> kind]
Token(what, n) == [what |-> what, seq |-> n]

\* A call: where it is, and whether another was ever in progress with it.
CallAt(pc, stage, n, kind, alone) ==
    [pc |-> pc, stage |-> stage, seq |-> n, kind |-> kind, alone |-> alone]
NewCall == CallAt("new", "none", Null, "none", TRUE)
EndedCall == CallAt("done", "none", Null, "none", TRUE)

Busy(t) == call[t].pc \in {"check", "step"}
JobsApart == JobsMixed \/ jobs = {} \/ \A t \in Threads : Busy(t) => call[t].alone
Free == \A t \in Threads : call[t].pc # "step"

-----------------------------------------------------------------------------
(* The console.                                                            *)

BeginWait(m) == marker' = m /\ out' = <<>> /\ scan' = 0

FeedInput(lines) == input' = input \o lines

IsMarker(i) == out[i] = IF marker = Prompt THEN Token("prompt", Null)
                        ELSE Token("end", marker)

Matches == {i \in DOMAIN out : i > scan /\ IsMarker(i)}
MarkerFound == Matches # {}
MarkerAt == CHOOSE i \in Matches : \A j \in Matches : i <= j

\* markerTail and _parseExitCode: what has come of the status, if any.
ExitCode(i) ==
    LET tail == {k \in i + 1 .. Len(out) : \A j \in i + 1 .. k : out[j].what = "status"}
    IN  IF tail = {} THEN Null ELSE out[CHOOSE k \in tail : \A j \in tail : j <= k].seq

\* _extractStdout: behind the begin marker, or all there is.
Stdout(n, i) ==
    LET begins == {b \in 1 .. i - 1 : out[b] = Token("begin", n)}
        first  == CHOOSE b \in begins : \A c \in begins : b <= c
    IN  SubSeq(out, IF begins = {} THEN 1 ELSE first + 1, i - 1)

\* The result of a call whose marker has been found.
Result(t) == [exit |-> ExitCode(MarkerAt), stdout |-> Stdout(call[t].seq, MarkerAt)]

-----------------------------------------------------------------------------
(* The calls.                                                              *)

NextSequence_Same == sequence' = sequence
NextSequence == sequence' = sequence + 1

Ended(t) == [call EXCEPT ![t] = EndedCall]
Moved(t, pc, stage) == [call EXCEPT ![t] = [@ EXCEPT !.pc = pc, !.stage = stage]]

\* exec up to its first look for the marker; the machine may be gone.
SendExec(t, kind) ==
    /\ NextSequence
    /\ BeginWait(sequence)
    /\ FeedInput(<<Line("command", sequence, kind), Line("end", sequence, "status")>>)
    /\ call' = [u \in Threads |->
         IF u # t THEN [call[u] EXCEPT !.alone = @ /\ ~Busy(u)]
         ELSE IF machine = "none" THEN EndedCall
         ELSE CallAt("check", "exec", sequence, kind, \A v \in Threads \ {t} : ~Busy(v))]

Boot ==
    /\ Free
    /\ machine = "none"
    /\ call["boot"].pc = "new"
    /\ machine' = "on"
    /\ shell' = Line("booting", Null, "none")
    /\ BeginWait(Prompt)
    /\ call' = Moved("boot", "check", "boot")
    /\ UNCHANGED <<booted, sequence, input, quiet, last, owed, jobs, wrote>>

Exec(t) ==
    /\ Free
    /\ booted
    /\ call[t].pc = "new"
    /\ Cardinality({u \in Threads : Busy(u)}) < MaxBusy
    /\ \E kind \in Kinds : SendExec(t, kind)
    /\ UNCHANGED <<machine, booted, guestVars>>
    /\ JobsApart'

Dispose ==
    /\ Free
    /\ machine # "none"
    /\ machine' = "none"
    /\ booted' = FALSE
    /\ shell' = NoLine /\ quiet' = FALSE
    /\ last' = Killed /\ owed' = Null /\ jobs' = {} /\ wrote' = Null
    /\ UNCHANGED <<sequence, call, consoleVars, input>>

\* A call returns or throws, which its caller sees and the sandbox forgets.  Boot
\* asks for the mount when the shell is quiet, or should be: it does not look.
MountNext(t) == t = "boot" /\ call[t].kind = "stty" /\ booted' /\ AutoMount

End(t, searched) ==
    /\ call' = Ended(t)
    /\ scan' = searched
    /\ UNCHANGED <<sequence, out, marker, input>>

Return(t, searched) ==
    \/ MountNext(t) /\ SendExec(t, "mount")
    \/ ~MountNext(t) /\ End(t, searched)

\* The loop's condition holds.  Boot takes the machine for running.
FoundPrompt(t) ==
    /\ Free /\ call[t].pc = "check" /\ call[t].stage = "boot" /\ MarkerFound
    /\ booted' = TRUE
    /\ SendExec(t, "stty")
    /\ UNCHANGED <<machine, guestVars>>

FoundEnd(t) ==
    /\ Free /\ call[t].pc = "check" /\ call[t].stage = "exec" /\ MarkerFound
    /\ UNCHANGED <<machine, booted, guestVars>>
    /\ \/ machine = "none" /\ End(t, MarkerAt)
       \/ machine # "none" /\ Return(t, MarkerAt)

FoundIdle(t) ==
    /\ Free /\ call[t].pc = "check" /\ call[t].stage = "recover" /\ MarkerFound
    /\ UNCHANGED <<machine, booted, guestVars>>
    /\ Return(t, MarkerAt)

\* It does not, and the machine is stepped.
Step(t) ==
    /\ Free /\ call[t].pc = "check" /\ ~MarkerFound
    /\ UNCHANGED <<machine, booted, guestVars>>
    /\ \/ machine = "none" /\ End(t, Len(out))
       \/ /\ machine # "none"
          /\ call' = Moved(t, "step", call[t].stage)
          /\ scan' = Len(out)
          /\ UNCHANGED <<sequence, out, marker, input>>

Again(t) ==
    /\ call[t].pc = "step"
    /\ machine = "off" => call[t].stage = "boot"
    /\ call' = Moved(t, "check", call[t].stage)
    /\ UNCHANGED <<machine, booted, sequence, consoleVars, input, guestVars>>

\* The time or the budget of a call is spent: _abort and _recover.
Recover(t) ==
    /\ NextSequence
    /\ BeginWait(sequence)
    /\ FeedInput(<<Line("ctrlC", Null, "none"), Line("end", sequence, "none")>>)
    /\ call' = Moved(t, "check", "recover")
    /\ booted' = booted

GiveUp_StaysReady(t) == booted' = booted /\ Return(t, scan)
GiveUp(t) == booted' = FALSE /\ Return(t, scan)

Expire(t) ==
    /\ call[t].pc = "step"
    /\ UNCHANGED <<machine, guestVars>>
    /\ \/ call[t].stage = "boot" /\ booted' = booted /\ End(t, scan)
       \/ call[t].stage = "exec" /\ Recover(t)
       \/ call[t].stage = "recover" /\ GiveUp(t)

\* The guest has shut down.
Down(t) ==
    /\ call[t].pc = "step"
    /\ machine = "off"
    /\ UNCHANGED <<machine, guestVars>>
    /\ \/ call[t].stage = "exec" /\ booted' = booted /\ Return(t, scan)
       \/ call[t].stage = "recover" /\ GiveUp(t)

-----------------------------------------------------------------------------
(* The guest, while it is stepped: a terminal that echoes until told not   *)
(* to, and a shell that reads a line when it has nothing else to do.       *)

Stepped == machine = "on" /\ ~Free
Write(tokens) == out' = out \o tokens

Prompted ==
    /\ Stepped
    /\ shell.what = "booting"
    /\ shell' = NoLine
    /\ Write(<<Token("prompt", Null)>>)
    /\ UNCHANGED <<hostVars, scan, marker, input, quiet, last, owed, jobs, wrote>>

\* The lines of a command, begin marker first.
ShellReads ==
    /\ Stepped
    /\ shell = NoLine /\ owed = Null
    /\ input # <<>> /\ Head(input).what # "ctrlC"
    /\ input' = Tail(input)
    /\ LET line == Head(input)
           echo == IF quiet THEN <<>> ELSE <<Token("echo", Null)>>
       IN  IF line.what = "command"
           THEN /\ shell' = line
                /\ owed' = Null
                /\ Write(echo \o <<Token("begin", line.seq)>>)
           ELSE /\ shell' = NoLine
                /\ owed' = IF line.kind = "status" THEN last ELSE Null
                /\ Write(echo \o <<Token("end", line.seq)>>)
    /\ UNCHANGED <<hostVars, scan, marker, quiet, last, jobs, wrote>>

\* Ctrl-C overtakes what the terminal holds, discards it unless the shell has
\* the terminal raw, and ends the command in the foreground: only that.
Interrupt ==
    /\ Stepped
    /\ \E i \in DOMAIN input :
         /\ input[i].what = "ctrlC"
         /\ \A j \in 1 .. i - 1 : input[j].what # "ctrlC"
         /\ LET rest == SubSeq(input, i + 1, Len(input))
            IN  input' \in {rest, SubSeq(input, 1, i - 1) \o rest}
    /\ IF shell.what = "command" /\ shell.kind # "deaf"
       THEN shell' = NoLine /\ last' = Killed
       ELSE UNCHANGED <<shell, last>>
    /\ UNCHANGED <<hostVars, consoleVars, quiet, owed, jobs, wrote>>

\* Bound: a status comes in two pieces only behind the marker waited for.
StatusFollows ==
    /\ Stepped
    /\ owed # Null
    /\ \/ owed' = Null /\ Write(<<Token("status", owed)>>)
       \/ owed' = owed /\ Write(<<Token("status", Torn)>>)
          /\ out # <<>> /\ IsMarker(Len(out))
    /\ UNCHANGED <<hostVars, scan, marker, input, shell, quiet, last, jobs, wrote>>

CommandWrites ==
    /\ Stepped
    /\ shell.what = "command" /\ shell.kind # "stty"
    /\ shell.seq # wrote
    /\ wrote' = shell.seq
    /\ Write(<<Token("text", shell.seq)>>)
    /\ UNCHANGED <<hostVars, scan, marker, input, shell, quiet, last, owed, jobs>>

\* One that reads its input takes the line behind it, the end marker.
CommandEnds ==
    /\ Stepped
    /\ shell.what = "command" /\ shell.kind \in {"ends", "stty", "mount"}
    /\ \/ input' = input
       \/ /\ shell.kind = "ends"
          /\ input # <<>> /\ Head(input).what # "ctrlC"
          /\ input' = Tail(input)
    /\ shell' = NoLine
    /\ last' = shell.seq
    /\ quiet' = (quiet \/ shell.kind = "stty")
    /\ UNCHANGED <<hostVars, consoleVars, owed, jobs, wrote>>

\* A command is any text, "server &" too.
LeaveBehind ==
    /\ Stepped
    /\ shell.what = "command" /\ shell.kind \in Kinds
    /\ shell.seq \notin jobs
    /\ jobs' = jobs \cup {shell.seq}
    /\ UNCHANGED <<hostVars, consoleVars, input, shell, quiet, last, owed, wrote>>
    /\ JobsApart'

\* What it left writes when it likes, but not into a line that the shell is writing.
\* Bound: once between two waits.
BackgroundWrites ==
    /\ Stepped
    /\ owed = Null
    /\ \E n \in jobs :
         /\ \A i \in DOMAIN out : out[i] # Token("late", n)
         /\ Write(<<Token("late", n)>>)
    /\ UNCHANGED <<hostVars, scan, marker, input, guestVars>>

ShutsDown ==
    /\ Stepped
    /\ shell.kind = "off"
    /\ machine' = "off"
    /\ UNCHANGED <<booted, sequence, call, consoleVars, input, guestVars>>

-----------------------------------------------------------------------------
\* A new sandbox, or one restored from a snapshot taken when it was idle, with
\* nothing in the background, which is not to be booted.  Bound: boot is called once.
Init ==
    /\ machine = IF Restored THEN "on" ELSE "none"
    /\ booted = Restored
    /\ quiet = Restored
    /\ sequence = 0
    /\ call = [t \in Threads |->
                 IF t = "boot" /\ booted THEN EndedCall ELSE NewCall]
    /\ out = <<>> /\ scan = 0 /\ marker = Null
    /\ input = <<>>
    /\ shell = NoLine /\ last = Killed /\ owed = Null
    /\ jobs = {} /\ wrote = Null

Caller(t) == \/ FoundPrompt(t) \/ FoundEnd(t) \/ FoundIdle(t)
             \/ Step(t) \/ Again(t) \/ Expire(t) \/ Down(t)

Guest == \/ Prompted \/ ShellReads \/ Interrupt \/ StatusFollows
         \/ CommandWrites \/ CommandEnds \/ ShutsDown
         \/ LeaveBehind \/ BackgroundWrites

Next == \/ Boot \/ Dispose \/ Guest
        \/ \E t \in Calls : Exec(t)
        \/ \E t \in Threads : Caller(t)

Spec == Init /\ [][Next]_vars

-----------------------------------------------------------------------------
(* Properties.                                                             *)

KindSet == {"none", "stty", "mount", "ends", "deaf", "off"}
CallSet == [pc : {"new", "check", "step", "done"},
            stage : {"none", "boot", "exec", "recover"},
            seq : Int, kind : KindSet,
            alone : BOOLEAN]
LineSet == [what : {"command", "end", "ctrlC"}, seq : Int,
            kind : KindSet \cup {"status"}]
TokenSet == [what : {"prompt", "echo", "begin", "end", "status", "text", "late"},
             seq : Int]

TypeOK ==
    /\ machine \in {"none", "on", "off"}
    /\ booted \in BOOLEAN
    /\ sequence \in Nat /\ marker \in Int
    /\ call \in [Threads -> CallSet]
    /\ input \in Seq(LineSet)
    /\ out \in Seq(TokenSet)
    /\ {shell.seq, last, owed} \cup jobs \subseteq Int

\* The call is about to return, and no other was ever in progress with it.
Returns(t) ==
    /\ Free /\ call[t].pc = "check" /\ call[t].stage = "exec" /\ call[t].alone
    /\ MarkerFound /\ machine # "none"

\* What a call of exec returns while no other was in progress is, once, what its
\* own command wrote and, as far as it could be read, its own status: no line the
\* guest had not read, no text of a command that was killed, no end marker of a wait
\* that was given up.  Among it is what the terminal echoed and, from processes that
\* this command or earlier ones left in the background, what they write meanwhile:
\* the console is theirs too, and nothing in the code tells their text apart.
OwnOutput ==
    \A t \in Calls : Returns(t) =>
        LET result == Result(t)
            text == result.stdout
            own == Token("text", call[t].seq)
        IN  /\ result.exit \in {call[t].seq, Torn, Null}
            /\ \A i \in DOMAIN text :
                 \/ text[i] = own
                 \/ text[i].what = "echo"
                 \/ text[i].what = "late" /\ text[i].seq \in jobs
            /\ Cardinality({i \in DOMAIN text : text[i] = own}) =
                  IF call[t].seq = wrote THEN 1 ELSE 0

\* Between calls a sandbox that says it is ready, over a machine that runs, has
\* a shell that waits for a line and nothing on the way to it: also after
\* commands that were stopped, and after calls that overlapped.
ReadyIsIdle ==
    booted /\ machine = "on" /\ (\A t \in Threads : ~Busy(t)) =>
        shell = NoLine /\ input = <<>>

\* "Captures combined stdout/stderr and the exit status" (agent_sandbox.dart:182):
\* a call that completed has the status, and the whole of it.
StatusIsRead == \A t \in Calls : Returns(t) => Result(t).exit \notin {Torn, Null}
=============================================================================
