------------------------------- MODULE Shell -------------------------------
(***************************************************************************)
(* One call of shell_run (agentos/src/shell.c): the agent runs a command   *)
(* with /bin/sh, drains its output from a pipe up to a limit, and kills    *)
(* its process group when the deadline passes or the limit is passed.      *)
(*                                                                         *)
(* The agent, the shell and one background process of it take steps in any *)
(* order.  The bytes written to the pipe are numbered in the order they    *)
(* were written; a pipe keeps that order, so the bytes in it are those     *)
(* from taken + 1 to written, and the output kept is the first of them but *)
(* for chunks there was no memory for.                                     *)
(***************************************************************************)
EXTENDS Integers

CONSTANTS MaxOutput,    \* max_output: the bytes kept
          Chunk,        \* READ_CHUNK: the bytes one read can return
          PipeSize,     \* the bytes the kernel's pipe holds
          MaxWritten,   \* bound: the bytes the command's processes write
          Faults,       \* which calls may fail, of "pipe", "fork", "chdir",
                        \* "poll", "read" and "memory" (the output's buffer)
          Behaviours    \* what a command may do, of "leave", "closeout"

ASSUME ShellAssumption ==
    /\ MaxOutput \in Nat
    /\ Chunk \in Nat \ {0}
    /\ PipeSize \in Nat \ {0}
    /\ MaxWritten \in Nat

Procs == {"sh", "bg"}

VARIABLES
    place,      \* where the agent is in shell_run
    expired,    \* the clock has reached the deadline
    killed, timed_out, truncated,   \* as in the code
    exit_code,  \* "none", or what waitpid told: "zero", "nonzero", "signal"
    taken,      \* bytes read from the pipe
    kept,       \* result->output.len, without the agent's own messages
    st,         \* each process: not there, forked, running or dead
    grp,        \* its process group: the agent's, the job's or another
    out,        \* the processes that hold the pipe's write end
    written,    \* bytes the processes have written
    ended,      \* how the shell ended
    missed,     \* history: the kill found no group of that number
    gave_up,    \* history: poll or read failed and the loop was left
    dropped     \* history: bytes within the limit whose append was refused

agentVars == <<place, killed, timed_out, truncated, exit_code, taken, kept>>
jobVars   == <<st, grp, out, written, ended>>
shellVars == <<agentVars, jobVars, expired, missed, gave_up, dropped>>

Least(a, b) == IF a < b THEN a ELSE b

Running(p) == st[p] = "running"
Reading    == place \in {"check", "poll"}
InPipe     == written - taken

ShellTypeOK ==
    /\ place \in {"start", "check", "poll", "wait", "done"}
    /\ expired \in BOOLEAN
    /\ killed \in BOOLEAN
    /\ timed_out \in BOOLEAN
    /\ truncated \in BOOLEAN
    /\ exit_code \in {"none", "zero", "nonzero", "signal"}
    /\ taken \in Nat
    /\ kept \in Nat
    /\ written \in Nat
    /\ st \in [Procs -> {"none", "forked", "running", "dead"}]
    /\ grp \in [Procs -> {"agent", "job", "away"}]
    /\ out \subseteq Procs
    /\ ended \in {"no", "zero", "nonzero", "signal"}
    /\ missed \in BOOLEAN
    /\ gave_up \in BOOLEAN
    /\ dropped \in Nat

ShellInit ==
    /\ place = "start"
    /\ expired = FALSE
    /\ killed = FALSE
    /\ timed_out = FALSE
    /\ truncated = FALSE
    /\ exit_code = "none"
    /\ taken = 0
    /\ kept = 0
    /\ written = 0
    /\ st = [p \in Procs |-> "none"]
    /\ grp = [p \in Procs |-> "agent"]
    /\ out = {}
    /\ ended = "no"
    /\ missed = FALSE
    /\ gave_up = FALSE
    /\ dropped = 0

-----------------------------------------------------------------------------
(* The agent.                                                              *)

\* pipe and fork; the parent's own write end is closed at once.
Fork ==
    /\ place = "start"
    /\ place' = "check"
    /\ st' = [st EXCEPT !["sh"] = "forked"]
    /\ out' = {"sh"}
    /\ UNCHANGED <<killed, timed_out, truncated, exit_code, taken, kept, grp,
                   written, ended, expired, missed, gave_up, dropped>>

\* No pipe or no process: the result is a message and exit code -1.
CannotStart ==
    /\ place = "start"
    /\ Faults \cap {"pipe", "fork"} # {}
    /\ place' = "done"
    /\ UNCHANGED <<killed, timed_out, truncated, exit_code, taken, kept,
                   jobVars, expired, missed, gave_up, dropped>>

\* kill(-pid, SIGKILL): every process of the shell's group ends.  Until the
\* shell has called setpgid there is no such group and the call does nothing.
Victims_ShellOnly == {p \in {"sh"} : Running(p) /\ grp[p] = "job"}

Victims == {p \in Procs : Running(p) /\ grp[p] = "job"}

KillJob ==
    /\ killed' = TRUE
    /\ st' = [p \in Procs |-> IF p \in Victims THEN "dead" ELSE st[p]]
    /\ out' = out \ Victims
    /\ ended' = IF "sh" \in Victims THEN "signal" ELSE ended
    /\ missed' = (st["sh"] = "forked")
    /\ UNCHANGED <<grp, written>>

\* The head of the loop: the deadline is looked at, and acted on once.
Due_WhileRoom == expired /\ ~killed /\ ~truncated
Due == expired /\ ~killed

Check ==
    /\ place = "check"
    /\ place' = "poll"
    /\ IF Due
       THEN KillJob /\ timed_out' = TRUE
       ELSE UNCHANGED <<jobVars, killed, missed, timed_out>>
    /\ UNCHANGED <<truncated, exit_code, taken, kept, expired, gave_up, dropped>>

\* poll returns 0 at the end of its slice, or is interrupted.
PollNothing ==
    /\ place = "poll"
    /\ InPipe = 0
    /\ out # {}
    /\ place' = "check"
    /\ UNCHANGED <<killed, timed_out, truncated, exit_code, taken, kept,
                   jobVars, expired, missed, gave_up, dropped>>

\* poll fails for good: the loop is left, whatever the command is doing.
PollFails ==
    /\ place = "poll"
    /\ "poll" \in Faults
    /\ place' = "wait"
    /\ gave_up' = TRUE
    /\ UNCHANGED <<killed, timed_out, truncated, exit_code, taken, kept,
                   jobVars, expired, missed, dropped>>

\* So is it when read fails, whatever is in the pipe.
ReadFails ==
    /\ place = "poll"
    /\ "read" \in Faults
    /\ InPipe > 0 \/ out = {}
    /\ place' = "wait"
    /\ gave_up' = TRUE
    /\ UNCHANGED <<killed, timed_out, truncated, exit_code, taken, kept,
                   jobVars, expired, missed, dropped>>

\* read returns 0: nobody holds the write end and the pipe is empty.
AtEnd_ShellGone == st["sh"] = "dead"
AtEnd == InPipe = 0 /\ out = {}

EndOfOutput ==
    /\ place = "poll"
    /\ AtEnd
    /\ place' = "wait"
    /\ UNCHANGED <<killed, timed_out, truncated, exit_code, taken, kept,
                   jobVars, expired, missed, gave_up, dropped>>

\* read returns a chunk.  What there is room for is kept; a chunk that finds no
\* room at all kills the job.
Room == IF kept < MaxOutput THEN MaxOutput - kept ELSE 0
Got  == Least(Chunk, InPipe)

Keep_WholeChunk == IF Room = 0 THEN 0 ELSE Got
Keep == Least(Got, Room)

\* The append may be refused, which nobody looks at: the bytes are gone, and only
\* those beyond the room there was are reported.
Appended ==
    kept' = kept + Keep /\ dropped' = dropped
AppendRefused ==
    /\ "memory" \in Faults
    /\ Keep > 0
    /\ kept' = kept /\ dropped' = dropped + Keep

Drain ==
    /\ place = "poll"
    /\ InPipe > 0
    /\ place' = "check"
    /\ taken' = taken + Got
    /\ Appended \/ AppendRefused
    /\ truncated' = (truncated \/ Room < Got)
    /\ IF Room = 0 /\ ~killed
       THEN KillJob
       ELSE UNCHANGED <<jobVars, killed, missed>>
    /\ UNCHANGED <<timed_out, exit_code, expired, gave_up>>

\* waitpid: has no deadline.
Reap ==
    /\ place = "wait"
    /\ st["sh"] = "dead"
    /\ place' = "done"
    /\ exit_code' = ended
    /\ UNCHANGED <<killed, timed_out, truncated, taken, kept, jobVars,
                   expired, missed, gave_up, dropped>>

-----------------------------------------------------------------------------
(* The child between fork and exec, and the command's processes.           *)

\* chdir, a group of its own, exec.
Exec ==
    /\ st["sh"] = "forked"
    /\ st' = [st EXCEPT !["sh"] = "running"]
    /\ grp' = [grp EXCEPT !["sh"] = "job"]
    /\ UNCHANGED <<agentVars, out, written, ended, expired, missed, gave_up, dropped>>

\* chdir or exec fails: the child exits with 126 or 127.
CannotExec_NoStatus ==
    /\ st["sh"] = "forked"
    /\ "chdir" \in Faults
    /\ st' = [st EXCEPT !["sh"] = "dead"]
    /\ out' = out \ {"sh"}
    /\ UNCHANGED <<agentVars, grp, written, ended, expired, missed, gave_up, dropped>>

CannotExec ==
    /\ st["sh"] = "forked"
    /\ "chdir" \in Faults
    /\ st' = [st EXCEPT !["sh"] = "dead"]
    /\ out' = out \ {"sh"}
    /\ ended' = "nonzero"
    /\ UNCHANGED <<agentVars, grp, written, expired, missed, gave_up, dropped>>

WriteOutput(p) ==
    /\ Running(p) /\ p \in out
    /\ Reading
    /\ InPipe < PipeSize
    /\ written < MaxWritten
    /\ written' = written + 1
    /\ UNCHANGED <<agentVars, st, grp, out, ended, expired, missed, gave_up, dropped>>

\* The shell starts a process in the background: same group, same output.
Background ==
    /\ Running("sh") /\ st["bg"] = "none"
    /\ st' = [st EXCEPT !["bg"] = "running"]
    /\ grp' = [grp EXCEPT !["bg"] = grp["sh"]]
    /\ out' = IF "sh" \in out THEN out \cup {"bg"} ELSE out
    /\ UNCHANGED <<agentVars, written, ended, expired, missed, gave_up, dropped>>

\* A daemon makes a session of its own.  The shell leads a group and cannot.
Leave ==
    /\ "leave" \in Behaviours
    /\ Running("bg")
    /\ grp' = [grp EXCEPT !["bg"] = "away"]
    /\ UNCHANGED <<agentVars, st, out, written, ended, expired, missed, gave_up, dropped>>

CloseOutput(p) ==
    /\ "closeout" \in Behaviours
    /\ Running(p) /\ p \in out
    /\ out' = out \ {p}
    /\ UNCHANGED <<agentVars, st, grp, written, ended, expired, missed, gave_up, dropped>>

Exit(p) ==
    /\ Running(p)
    /\ st' = [st EXCEPT ![p] = "dead"]
    /\ out' = out \ {p}
    /\ IF p = "sh" THEN ended' \in {"zero", "nonzero"} ELSE UNCHANGED ended
    /\ UNCHANGED <<agentVars, grp, written, expired, missed, gave_up, dropped>>

\* now_ms() reaches the deadline.
Expire ==
    /\ Reading \/ place = "wait"
    /\ ~expired
    /\ expired' = TRUE
    /\ UNCHANGED <<agentVars, jobVars, missed, gave_up, dropped>>

Finished == place = "done" /\ UNCHANGED shellVars

Agent == \/ Fork \/ CannotStart
         \/ Check \/ PollNothing \/ PollFails \/ ReadFails \/ EndOfOutput
         \/ Drain
         \/ Reap

Job == \/ Exec \/ CannotExec
       \/ Background \/ Leave
       \/ \E p \in Procs : WriteOutput(p) \/ CloseOutput(p) \/ Exit(p)

ShellNext == Agent \/ Job \/ Expire \/ Finished

ShellSpec == ShellInit /\ [][ShellNext]_shellVars

\* The agent's loop runs, the child gets as far as exec, and time passes.  The
\* command itself need never do anything.
ShellFairSpec == /\ ShellSpec
                 /\ WF_shellVars(Agent)
                 /\ WF_shellVars(Exec \/ CannotExec)
                 /\ WF_shellVars(Expire)

-----------------------------------------------------------------------------
(* Properties.                                                             *)

\* The output never passes the limit, and the mark tells exactly of what was thrown
\* away for the limit: it is there only once the limit is used up, and not for the
\* bytes that found no memory, of which nothing tells (shell.c:116).  While memory
\* lasts, before the job is killed no more than the rest of one chunk is thrown
\* away, however much it prints.
OutputBounded ==
    /\ kept <= MaxOutput
    /\ truncated <=> kept + dropped < taken
    /\ truncated => kept + dropped >= MaxOutput
    /\ ~killed /\ dropped = 0 => taken - kept < Chunk

\* A result that is not marked truncated holds every byte any process of the
\* command wrote, also those written by a background process after the shell
\* itself had ended, or just before a kill.  Two things are lost without a mark:
\* what is in the pipe when poll or read fails (shell.c:89, 97), and the chunks
\* whose append was refused (shell.c:116).
NothingLost ==
    place = "done" /\ ~truncated /\ ~gave_up => kept + dropped = written

\* After a kill no process of the command is left but one that has made a
\* session of its own, unless the kill came before the shell had its group.
JobGone ==
    place = "done" /\ killed /\ ~missed =>
        \A p \in Procs : Running(p) => grp[p] = "away"

\* The command stays in its group and holds on to its output, poll and read work,
\* and the deadline is not so short that it falls before setpgid.
Contained ==
    /\ \A p \in Procs : Running(p) => grp[p] = "job"
    /\ Running("sh") => "sh" \in out
    /\ ~missed
    /\ ~gave_up

\* A command that never ends is killed when its time is up and shell_run
\* returns, also when a background process holds the pipe open.
EndsByDeadline == []Contained => (expired ~> place = "done")
=============================================================================
