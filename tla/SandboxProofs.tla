--------------------------- MODULE SandboxProofs ---------------------------
(***************************************************************************)
(* For any number of calls, overlapping as they like, and commands of any  *)
(* kind: between calls a sandbox that is ready, over a machine that runs,  *)
(* has a shell that waits for its next line; and a call that no other      *)
(* overlaps returns what its own command wrote, among what processes in    *)
(* the background write meanwhile.                                         *)
(*                                                                         *)
(* The reason is that beginWait and feedInput go together: what is waited  *)
(* for is always printed by the last line fed (MarkerIsLast), so whoever   *)
(* finds it, the guest has read everything (FoundIsIdle).                  *)
(***************************************************************************)
EXTENDS Sandbox, SequenceTheorems, FiniteSetTheorems, TLAPS

MarkerIsLast ==
    /\ marker < sequence
    /\ \A i \in DOMAIN input : input[i].seq < sequence
    /\ \A i \in DOMAIN input :
         input[i].what = "end" /\ input[i].seq = marker => i = Len(input)

FoundIsIdle ==
    \A i \in DOMAIN out : out[i] = Token("end", marker) => input = <<>> /\ shell = NoLine

\* Until boot is called there is nothing, or the sandbox was restored.
BootFirst ==
    call["boot"].pc = "new" =>
        /\ ~booted /\ machine = "none" /\ input = <<>>
        /\ \A t \in Threads : ~Busy(t)

Stages ==
    \A t \in Threads : Busy(t) =>
        /\ call[t].stage \in {"boot", "exec", "recover"}
        /\ call[t].stage = "boot" => t = "boot" /\ ~booted
        /\ call[t].stage # "boot" => marker # Prompt

IInv == TypeOK /\ MarkerIsLast /\ FoundIsIdle /\ BootFirst /\ Stages /\ ReadyIsIdle

\* The numbers that stand for no line and for no status.
LEMMA Numbers == NoLine.seq \in Int /\ Null \in Int /\ Killed \in Int
BY DEF NoLine, Null, Killed

\* A new sandbox and a restored one satisfy the invariant.
LEMMA InitHolds == ASSUME Init PROVE IInv
<1>1. call \in [Threads -> CallSet] /\ \A t \in Threads : ~Busy(t)
  <2>1. NewCall \in CallSet /\ EndedCall \in CallSet
        /\ NewCall.pc = "new" /\ EndedCall.pc = "done"
    BY DEF NewCall, EndedCall, CallAt, CallSet, KindSet, Null
  <2> QED
    BY <2>1, Zenon DEF Init, Busy
<1>2. TypeOK
  BY <1>1, CallsAssumption, Numbers DEF Init, TypeOK, LineSet
<1>3. MarkerIsLast /\ FoundIsIdle
  BY DEF Init, MarkerIsLast, FoundIsIdle, Null
<1>4. BootFirst
  <2>1. "boot" \in Threads
    BY DEF Threads
  <2>2. booted => call["boot"] = EndedCall
    BY <2>1 DEF Init
  <2>3. EndedCall.pc = "done"
    BY DEF EndedCall, CallAt
  <2>4. ~booted => machine = "none"
    BY CallsAssumption DEF Init
  <2>5. input = <<>>
    BY DEF Init
  <2> QED
    BY <1>1, <2>2, <2>3, <2>4, <2>5 DEF BootFirst
<1>5. Stages /\ ReadyIsIdle
  BY <1>1 DEF Init, Stages, ReadyIsIdle
<1> QED
  BY <1>2, <1>3, <1>4, <1>5 DEF IInv

-----------------------------------------------------------------------------
(* Feeding a command.                                                      *)

\* What appending two elements to a sequence gives.
LEMMA TwoMore ==
    ASSUME NEW S, NEW q \in Seq(S), NEW a \in S, NEW b \in S
    PROVE  /\ q \o <<a, b>> \in Seq(S) /\ Len(q \o <<a, b>>) = Len(q) + 2 /\ Len(q) \in Nat
           /\ DOMAIN q = 1 .. Len(q) /\ DOMAIN (q \o <<a, b>>) = 1 .. Len(q) + 2
           /\ \A i \in DOMAIN q : (q \o <<a, b>>)[i] = q[i]
           /\ (q \o <<a, b>>)[Len(q) + 1] = a /\ (q \o <<a, b>>)[Len(q) + 2] = b
OBVIOUS

\* Two lines are fed and the second prints what is now waited for.
LEMMA FeedKeeps ==
    ASSUME IInv, NEW l1 \in LineSet, NEW l2 \in LineSet, l2.seq = sequence,
           l1.what # "end", l1.seq <= sequence,
           input' = input \o <<l1, l2>>, sequence' = sequence + 1, marker' = sequence
    PROVE  input' \in Seq(LineSet) /\ MarkerIsLast'
<1>1. /\ sequence \in Nat /\ marker \in Int /\ input \in Seq(LineSet)
      /\ l1.seq \in Int /\ l2.seq \in Int
  BY DEF IInv, TypeOK, LineSet
<1>2. /\ input' \in Seq(LineSet) /\ Len(input') = Len(input) + 2 /\ Len(input) \in Nat
      /\ DOMAIN input = 1 .. Len(input) /\ DOMAIN input' = 1 .. Len(input) + 2
      /\ \A i \in DOMAIN input : input'[i] = input[i] /\ input[i].seq \in Int
      /\ input'[Len(input) + 1] = l1 /\ input'[Len(input) + 2] = l2
  <2>1. \A i \in DOMAIN input : input[i] \in LineSet
    BY <1>1
  <2>2. \A i \in DOMAIN input : input[i].seq \in Int
    BY <2>1 DEF LineSet
  <2> QED
    BY <1>1, <2>2, TwoMore
<1>3. MarkerIsLast'
  <2>1. ASSUME NEW i \in DOMAIN input'
        PROVE  /\ input'[i].seq < sequence'
               /\ input'[i].what = "end" /\ input'[i].seq = marker' => i = Len(input')
    <3>1. CASE i \in DOMAIN input
      BY <1>1, <1>2, <3>1 DEF IInv, MarkerIsLast
    <3>2. CASE i = Len(input) + 1
      BY <1>1, <1>2, <3>2
    <3>3. CASE i = Len(input) + 2
      BY <1>1, <1>2, <3>3
    <3>4. i \in DOMAIN input \/ i = Len(input) + 1 \/ i = Len(input) + 2
      <4>1. i \in 1 .. Len(input) + 2 /\ Len(input) \in Nat /\ DOMAIN input = 1 .. Len(input)
        BY <1>2, <2>1
      <4> QED
        BY <4>1
    <3> QED
      BY <3>1, <3>2, <3>3, <3>4
  <2>2. marker' < sequence'
    BY <1>1
  <2> QED
    BY <2>1, <2>2 DEF MarkerIsLast
<1> QED
  BY <1>2, <1>3

\* exec's part of any action: a wait begins, with its end marker the last line.
LEMMA SendKeeps ==
    ASSUME IInv, NEW t \in Threads, NEW kind, kind \in {"stty", "mount"} \cup Kinds,
           SendExec(t, kind), UNCHANGED <<machine, shell, last, owed, jobs>>,
           booted' \in BOOLEAN,
           t = "boot" \/ booted,
           \A u \in Threads \ {t} : call[u].stage # "boot" \/ ~Busy(u) \/ booted' = booted
    PROVE  IInv'
<1> DEFINE l1 == Line("command", sequence, kind)
           l2 == Line("end", sequence, "status")
<1>1. /\ sequence \in Nat /\ marker \in Int /\ input \in Seq(LineSet)
      /\ call \in [Threads -> CallSet] /\ machine \in {"none", "on", "off"}
      /\ {shell'.seq, last', owed'} \cup jobs' \subseteq Int
  BY DEF IInv, TypeOK
<1>2. kind \in KindSet
  BY KindsAssumption DEF KindSet
<1>3. l1 \in LineSet /\ l2 \in LineSet /\ l1.seq = sequence /\ l2.seq = sequence
      /\ l1.what = "command" /\ l2.what = "end"
  BY <1>1, <1>2 DEF Line, LineSet
<1> HIDE DEF l1, l2
<1>4. input' = input \o <<l1, l2>> /\ sequence' = sequence + 1
      /\ marker' = sequence /\ out' = <<>>
  BY DEF SendExec, NextSequence, BeginWait, FeedInput, l1, l2
<1>5. input' \in Seq(LineSet) /\ MarkerIsLast'
  <2>1. l2.seq = sequence /\ l1.what # "end" /\ l1.seq <= sequence
    BY <1>1, <1>3
  <2> QED
    BY <1>3, <1>4, <2>1, FeedKeeps
<1>7. FoundIsIdle'
  BY <1>4 DEF FoundIsIdle
<1> DEFINE sent == CallAt("check", "exec", sequence, kind,
                          \A v \in Threads \ {t} : ~Busy(v))
           gone == EndedCall
           past(u) == [call[u] EXCEPT !.alone = @ /\ ~Busy(u)]
<1>8. /\ DOMAIN call' = Threads
      /\ call'[t] = IF machine = "none" THEN gone ELSE sent
      /\ \A u \in Threads \ {t} : call'[u] = past(u)
  <2>1. call' = [u \in Threads |->
           IF u # t THEN past(u) ELSE IF machine = "none" THEN gone ELSE sent]
    BY DEF SendExec
  <2> HIDE DEF sent, gone, past
  <2> QED
    BY <2>1
<1>9. /\ sent \in CallSet /\ sent.pc = "check" /\ sent.stage = "exec"
      /\ gone \in CallSet /\ gone.pc = "done"
  <2>1. (\A v \in Threads \ {t} : ~Busy(v)) \in BOOLEAN
    BY Zenon
  <2>2. ASSUME NEW b \in BOOLEAN
        PROVE  CallAt("check", "exec", sequence, kind, b) \in CallSet
    BY <1>1, <1>2 DEF CallAt, CallSet
  <2>3. gone \in CallSet /\ gone.pc = "done"
    BY DEF CallSet, EndedCall, CallAt, Null, KindSet
  <2>4. sent.pc = "check" /\ sent.stage = "exec"
    BY DEF CallAt
  <2> QED
    BY <2>1, <2>2, <2>3, <2>4, Zenon
<1>10. \A u \in Threads : /\ past(u) \in CallSet /\ past(u).pc = call[u].pc
                          /\ past(u).stage = call[u].stage
  <2>1. ASSUME NEW u \in Threads, NEW b \in BOOLEAN
        PROVE  LET n == [call[u] EXCEPT !.alone = b]
               IN  n \in CallSet /\ n.pc = call[u].pc /\ n.stage = call[u].stage
    BY <1>1 DEF CallSet
  <2>2. \A u \in Threads : (call[u].alone /\ ~Busy(u)) \in BOOLEAN
    BY Zenon
  <2> QED
    BY <2>1, <2>2, Zenon
<1> HIDE DEF sent, gone, past
<1>11. /\ call' \in [Threads -> CallSet]
       /\ \A u \in Threads \ {t} : call'[u].pc = call[u].pc /\ call'[u].stage = call[u].stage
       /\ call'[t].pc \in {"check", "done"}
       /\ machine # "none" => call'[t].pc = "check"
       /\ call'[t].pc = "check" => call'[t].stage = "exec"
  <2>1. call' = [u \in Threads |-> call'[u]]
    BY DEF SendExec
  <2>2. \A u \in Threads : call'[u] \in CallSet
    BY <1>8, <1>9, <1>10
  <2>3. call' \in [Threads -> CallSet]
    BY <2>1, <2>2
  <2> QED
    BY <1>8, <1>9, <1>10, <2>3
<1>12. TypeOK'
  BY <1>1, <1>4, <1>5, <1>11 DEF TypeOK
<1>13. BootFirst'
  <2>1. "boot" \in Threads
    BY DEF Threads
  <2>2. call'["boot"].pc # "new"
    BY <1>11, <2>1 DEF IInv, BootFirst
  <2> QED
    BY <2>2 DEF BootFirst
<1>14. Stages'
  <2>1. marker' # Prompt
    BY <1>1, <1>4 DEF Prompt
  <2>2. ASSUME NEW u \in Threads, Busy(u)'
        PROVE  /\ call'[u].stage \in {"boot", "exec", "recover"}
               /\ call'[u].stage = "boot" => u = "boot" /\ ~booted'
    <3>1. CASE u = t
      BY <1>11, <2>2, <3>1 DEF Busy
    <3>2. CASE u # t
      BY <1>11, <2>2, <3>2 DEF Busy, IInv, Stages
    <3> QED
      BY <3>1, <3>2
  <2> QED
    BY <2>1, <2>2 DEF Stages
<1>15. ReadyIsIdle'
  BY <1>11 DEF ReadyIsIdle, Busy
<1> QED
  BY <1>5, <1>7, <1>12, <1>13, <1>14, <1>15 DEF IInv

-----------------------------------------------------------------------------
(* The end of a call.                                                      *)

\* The call of t is over; nothing else of what the invariant speaks of changes,
\* but the sandbox may have ceased to be ready.
LEMMA EndKeeps ==
    ASSUME IInv, NEW t \in Threads, Busy(t), call' = Ended(t),
           UNCHANGED <<machine, sequence, out, marker, input, shell, last, owed, jobs>>,
           \/ booted' = booted /\ \/ machine # "on" \/ ~booted
                                  \/ input = <<>> /\ shell = NoLine
           \/ booted' = FALSE
    PROVE  IInv'
<1>1. /\ call \in [Threads -> CallSet] /\ booted \in BOOLEAN
      /\ EndedCall \in CallSet /\ EndedCall.pc = "done"
  <2>1. EndedCall \in CallSet /\ EndedCall.pc = "done"
    BY DEF EndedCall, CallAt, CallSet, KindSet, Null
  <2> QED
    BY <2>1 DEF IInv, TypeOK
<1>2. /\ call' \in [Threads -> CallSet]
      /\ call'[t].pc = "done"
      /\ \A u \in Threads \ {t} : call'[u] = call[u]
  BY <1>1, Zenon DEF Ended
<1>3. booted' => booted
  BY <1>1
<1>4. \A u \in Threads : Busy(u)' => u # t /\ Busy(u) /\ call'[u] = call[u]
  BY <1>2 DEF Busy
<1>5. TypeOK'
  BY <1>1, <1>2 DEF IInv, TypeOK
<1>6. MarkerIsLast' /\ FoundIsIdle'
  BY DEF IInv, MarkerIsLast, FoundIsIdle
<1>7. BootFirst'
  <2>1. call'["boot"].pc = "new" => call["boot"].pc = "new"
    BY <1>2 DEF Threads
  <2>2. call["boot"].pc = "new" =>
          ~booted /\ machine = "none" /\ input = <<>> /\ \A u \in Threads : ~Busy(u)
    BY DEF IInv, BootFirst
  <2>3. booted' \in BOOLEAN /\ machine' = machine /\ input' = input
    BY <1>1
  <2> QED
    BY <1>3, <1>4, <2>1, <2>2, <2>3 DEF BootFirst
<1>8. Stages'
  BY <1>3, <1>4 DEF IInv, Stages
<1>9. ReadyIsIdle'
  BY DEF ReadyIsIdle
<1> QED
  BY <1>5, <1>6, <1>7, <1>8, <1>9 DEF IInv

\* A call that waits for an end marker and finds it finds the guest idle.
LEMMA FoundMeansIdle ==
    ASSUME IInv, NEW t \in Threads, Busy(t), call[t].stage # "boot", MarkerFound
    PROVE  input = <<>> /\ shell = NoLine
<1>1. marker # Prompt
  BY DEF IInv, Stages
<1>2. PICK i \in DOMAIN out : out[i] = Token("end", marker)
  BY <1>1 DEF MarkerFound, Matches, IsMarker
<1> QED
  BY <1>2 DEF IInv, FoundIsIdle

\* Return, which may be boot's going on.
LEMMA ReturnKeeps ==
    ASSUME IInv, NEW t \in Threads, Busy(t), NEW n, Return(t, n), UNCHANGED <<machine, guestVars>>,
           \/ booted' = booted /\ \/ machine # "on"
                                  \/ input = <<>> /\ shell = NoLine
           \/ booted' = FALSE
    PROVE  IInv'
<1>1. booted' \in BOOLEAN
  BY DEF IInv, TypeOK
<1>2. CASE MountNext(t) /\ SendExec(t, "mount")
  <2>1. t = "boot" /\ booted'
    BY <1>2 DEF MountNext
  <2>2. booted' = booted
    BY <2>1
  <2> QED
    BY <1>1, <1>2, <2>1, <2>2, SendKeeps DEF guestVars
<1>3. CASE ~MountNext(t)
  <2>1. call' = Ended(t) /\ UNCHANGED <<sequence, out, marker, input>>
    BY <1>3 DEF Return, End
  <2> QED
    BY <2>1, EndKeeps DEF guestVars
<1> QED
  BY <1>2, <1>3 DEF Return

-----------------------------------------------------------------------------
(* The guest.                                                              *)

\* While it is stepped some call is in progress, which leaves what was written
\* and what is still to be read.
LEMMA GuestKeeps ==
    ASSUME IInv, Stepped, UNCHANGED <<sequence, call, booted, marker>>,
           machine' \in {"on", "off"}, {shell'.seq, last', owed'} \cup jobs' \subseteq Int,
           out' \in Seq(TokenSet), input' \in Seq(LineSet),
           MarkerIsLast', FoundIsIdle'
    PROVE  IInv'
<1>1. PICK t \in Threads : Busy(t)
  BY DEF Stepped, Free, Busy
<1>2. TypeOK'
  BY DEF IInv, TypeOK
<1>3. call["boot"].pc # "new"
  BY <1>1 DEF IInv, BootFirst
<1>4. BootFirst' /\ Stages'
  BY <1>3 DEF IInv, BootFirst, Stages, Busy
<1>5. ReadyIsIdle'
  BY <1>1 DEF ReadyIsIdle, Busy
<1> QED
  BY <1>2, <1>4, <1>5 DEF IInv

\* Text that is no end marker is written, with nothing read.
LEMMA WriteKeeps ==
    ASSUME IInv, Stepped, NEW x \in TokenSet, x.what # "end",
           Write(<<x>>), UNCHANGED <<sequence, call, booted, machine, marker, input>>,
           {shell'.seq, last', owed'} \cup jobs' \subseteq Int,
           shell' = shell \/ shell # NoLine
    PROVE  IInv'
<1>1. out \in Seq(TokenSet) /\ input \in Seq(LineSet) /\ machine = "on"
  BY DEF IInv, TypeOK, Stepped
<1>2. /\ out' \in Seq(TokenSet) /\ out' = Append(out, x)
      /\ \A i \in DOMAIN out' : (i \in DOMAIN out /\ out'[i] = out[i]) \/ out'[i] = x
  BY <1>1 DEF Write
<1>3. FoundIsIdle'
  <2>1. ASSUME NEW i \in DOMAIN out', out'[i] = Token("end", marker)
        PROVE  i \in DOMAIN out /\ out[i] = Token("end", marker)
    BY <1>2, <2>1 DEF Token
  <2> QED
    BY <2>1 DEF IInv, FoundIsIdle
<1>4. MarkerIsLast'
  BY DEF IInv, MarkerIsLast
<1> QED
  BY <1>1, <1>2, <1>3, <1>4, GuestKeeps

\* The line that prints what is waited for is the last: the guest has then read
\* everything.
LEMMA ReadKeeps == ASSUME IInv, ShellReads PROVE IInv'
<1> DEFINE line == Head(input)
           echo == IF quiet THEN <<>> ELSE <<Token("echo", Null)>>
           last_ == Token(IF line.what = "command" THEN "begin" ELSE "end", line.seq)
<1>1. /\ out \in Seq(TokenSet) /\ input \in Seq(LineSet)
      /\ input # <<>> /\ line.what # "ctrlC" /\ machine = "on"
      /\ input' = Tail(input) /\ out' = out \o (echo \o <<last_>>)
      /\ line.what # "command" => shell' = NoLine
      /\ UNCHANGED <<machine, booted, sequence, call, marker>>
  BY DEF IInv, TypeOK, ShellReads, Stepped, Write, hostVars
<1>2. /\ line \in LineSet /\ line = input[1] /\ Len(input) \in Nat \ {0}
      /\ DOMAIN input = 1 .. Len(input)
      /\ input' \in Seq(LineSet) /\ Len(input') = Len(input) - 1
      /\ DOMAIN input' = 1 .. Len(input) - 1
      /\ \A i \in 1 .. Len(input) - 1 : input'[i] = input[i + 1] /\ i + 1 \in DOMAIN input
  BY <1>1
<1>3. /\ Token("echo", Null) \in TokenSet
      /\ last_ \in TokenSet
      /\ Token("echo", Null).what # "end"
      /\ last_.what = "end" => line.what = "end" /\ last_.seq = line.seq
  <2>1. line.seq \in Int /\ line.what \in {"command", "end"}
    BY <1>1, <1>2 DEF LineSet
  <2>2. ASSUME NEW n \in Int, NEW w \in {"begin", "end", "echo"}
        PROVE  /\ Token(w, n) \in TokenSet
               /\ Token(w, n).what = w /\ Token(w, n).seq = n
    BY DEF Token, TokenSet
  <2>3. Null \in Int
    BY DEF Null
  <2> HIDE DEF line
  <2>4. CASE line.what = "command"
    BY <2>1, <2>2, <2>3, <2>4
  <2>5. CASE line.what = "end"
    BY <2>1, <2>2, <2>3, <2>5
  <2> QED
    BY <2>1, <2>4, <2>5
<1>4. echo \in Seq(TokenSet) /\ \A i \in DOMAIN echo : echo[i].what # "end"
  <2>1. ASSUME NEW x \in TokenSet, x.what # "end"
        PROVE  <<x>> \in Seq(TokenSet) /\ \A i \in DOMAIN <<x>> : <<x>>[i].what # "end"
    BY <2>1
  <2>2. CASE quiet
    BY <2>2
  <2>3. CASE ~quiet
    BY <1>3, <2>1, <2>3, Zenon
  <2> QED
    BY <2>2, <2>3
<1> HIDE DEF line, echo, last_
<1>5. /\ out' \in Seq(TokenSet)
      /\ \A i \in DOMAIN out' : \/ i \in DOMAIN out /\ out'[i] = out[i]
                                \/ out'[i].what # "end"
                                \/ out'[i] = last_
  <2>1. out \in Seq(TokenSet) /\ last_ \in TokenSet
    BY <1>1, <1>3
  <2> QED
    BY <1>1, <1>4, <2>1
<1>6. FoundIsIdle'
  <2> SUFFICES ASSUME NEW i \in DOMAIN out', out'[i] = Token("end", marker)
               PROVE  input' = <<>> /\ shell' = NoLine
    BY <1>1 DEF FoundIsIdle
  <2>1. out'[i].what = "end" /\ out'[i].seq = marker
    BY DEF Token
  <2>2. ~(i \in DOMAIN out /\ out'[i] = out[i])
    BY <1>1 DEF IInv, FoundIsIdle
  <2>3. line.what = "end" /\ line.seq = marker
    BY <1>3, <1>5, <2>1, <2>2
  <2>4. Len(input) = 1
    BY <1>2, <2>3 DEF IInv, MarkerIsLast
  <2> QED
    BY <1>1, <1>2, <2>3, <2>4
<1>7. MarkerIsLast'
  <2>1. ASSUME NEW i \in DOMAIN input'
        PROVE  /\ input'[i].seq < sequence
               /\ input'[i].what = "end" /\ input'[i].seq = marker => i = Len(input')
    <3>1. i + 1 \in DOMAIN input /\ input'[i] = input[i + 1] /\ i \in Nat
      BY <1>2, <2>1
    <3> QED
      BY <1>2, <3>1 DEF IInv, MarkerIsLast
  <2> QED
    BY <1>1, <2>1 DEF IInv, MarkerIsLast
<1>8. {shell'.seq, last', owed'} \cup jobs' \subseteq Int
  <2>1. {shell.seq, last, owed} \cup jobs \subseteq Int /\ line.seq \in Int
    BY <1>2 DEF IInv, TypeOK, LineSet
  <2>2. shell' \in {line, NoLine} /\ last' = last /\ owed' \in {last, Null}
    BY DEF ShellReads, line
  <2>3. jobs' = jobs
    BY DEF ShellReads
  <2> QED
    BY <2>1, <2>2, <2>3, Numbers
<1>9. Stepped
  BY DEF ShellReads
<1> QED
  BY <1>1, <1>2, <1>5, <1>6, <1>7, <1>8, <1>9, GuestKeeps

\* Every element of r is one of q, the last of q only at the end of r.
Thins(r, q) ==
    \A j \in DOMAIN r : \E k \in DOMAIN q : r[j] = q[k] /\ (k = Len(q) => j = Len(r))

Without(q, i) == {SubSeq(q, i + 1, Len(q)),
                  SubSeq(q, 1, i - 1) \o SubSeq(q, i + 1, Len(q))}

\* A sequence without its elements up to i, or without the one at i, thins it.
LEMMA Cut ==
    ASSUME NEW S, NEW q \in Seq(S), NEW i \in DOMAIN q, NEW r \in Without(q, i)
    PROVE  r \in Seq(S) /\ Thins(r, q)
<1> DEFINE a == SubSeq(q, 1, i - 1)
           b == SubSeq(q, i + 1, Len(q))
           n == Len(q)
<1>1. /\ n \in Nat /\ DOMAIN q = 1 .. n /\ i \in 1 .. n /\ i \in Int /\ n \in Int
      /\ \A j \in 1 .. n : q[j] \in S
  OBVIOUS
<1>2. a \in Seq(S) /\ Len(a) = i - 1 /\ \A j \in 1 .. i - 1 : a[j] = q[j]
  BY <1>1
<1>3. b \in Seq(S) /\ Len(b) = n - i /\ \A j \in 1 .. n - i : b[j] = q[i + j]
  <2> HIDE DEF n
  <2>1. \A j \in i + 1 .. n : q[j] \in S
    BY <1>1
  <2>2. i + 1 \in Int
    BY <1>1
  <2>3. b = SubSeq(q, i + 1, n)
    BY DEF n
  <2>4. /\ SubSeq(q, i + 1, n) \in Seq(S)
        /\ Len(SubSeq(q, i + 1, n)) = IF i + 1 <= n THEN n - (i + 1) + 1 ELSE 0
        /\ \A j \in 1 .. n - (i + 1) + 1 : SubSeq(q, i + 1, n)[j] = q[i + 1 + j - 1]
    BY <1>1, <2>1, <2>2, SubSeqProperties
  <2>5. IF i + 1 <= n THEN n - (i + 1) + 1 = n - i ELSE 0 = n - i
    BY <1>1
  <2>6. \A j \in 1 .. n - i : j \in 1 .. n - (i + 1) + 1 /\ i + 1 + j - 1 = i + j
    BY <1>1
  <2> HIDE DEF b
  <2>7. Len(b) = n - i
    BY <2>3, <2>4, <2>5
  <2>8. \A j \in 1 .. n - i : b[j] = q[i + j]
    BY <2>3, <2>4, <2>6
  <2> QED
    BY <2>3, <2>4, <2>7, <2>8
<1> HIDE DEF a, b, n
<1>4. CASE r = b
  <2>1. \A j \in DOMAIN r : /\ i + j \in DOMAIN q /\ r[j] = q[i + j]
                            /\ i + j = n => j = Len(r)
    BY <1>1, <1>3, <1>4
  <2> QED
    BY <1>3, <1>4, <2>1 DEF n, Thins
<1>5. CASE r = a \o b
  <2>1. /\ r \in Seq(S) /\ Len(r) = Len(a) + Len(b) /\ DOMAIN r = 1 .. Len(r)
        /\ \A j \in 1 .. Len(a) + Len(b) :
             r[j] = IF j <= Len(a) THEN a[j] ELSE b[j - Len(a)]
    BY <1>2, <1>3, <1>5
  <2>2. ASSUME NEW j \in DOMAIN r
        PROVE  \E k \in DOMAIN q : r[j] = q[k] /\ (k = n => j = Len(r))
    <3>1. j \in Int /\ 1 <= j /\ j <= n - 1 /\ Len(r) = n - 1
      BY <1>1, <1>2, <1>3, <2>1, <2>2
    <3>2. CASE j <= i - 1
      <4>1. j \in 1 .. i - 1 /\ j \in 1 .. n /\ j # n
        <5>1. n \in Int /\ i \in Int /\ i <= n
          BY <1>1
        <5> QED
          BY <3>1, <3>2, <5>1
      <4>2. r[j] = a[j]
        BY <1>2, <2>1, <2>2, <4>1
      <4> QED
        BY <1>1, <1>2, <4>1, <4>2
    <3>3. CASE j > i - 1
      <4>1. j - (i - 1) \in 1 .. n - i /\ i + (j - (i - 1)) = j + 1 /\ j + 1 \in 1 .. n
        BY <1>1, <3>1, <3>3
      <4>2. r[j] = b[j - (i - 1)]
        <5>1. ~(j <= Len(a))
          BY <1>1, <1>2, <3>1, <3>3
        <5> QED
          BY <1>2, <2>1, <2>2, <5>1
      <4>3. r[j] = q[j + 1]
        BY <1>3, <4>1, <4>2
      <4>4. j + 1 = n => j = Len(r)
        BY <1>1, <3>1
      <4> QED
        BY <1>1, <4>1, <4>3, <4>4
    <3> QED
      BY <1>1, <3>1, <3>2, <3>3
  <2> QED
    BY <2>1, <2>2 DEF n, Thins
<1> QED
  BY <1>4, <1>5 DEF a, b, Without

\* Ctrl-C takes lines away, itself among them.
LEMMA InterruptKeeps == ASSUME IInv, Interrupt PROVE IInv'
<1>1. PICK i \in DOMAIN input : input' \in Without(input, i)
  BY Zenon DEF Interrupt, Without
<1>2. /\ out \in Seq(TokenSet) /\ input \in Seq(LineSet) /\ machine = "on"
      /\ UNCHANGED <<machine, booted, sequence, call, marker, out>> /\ input # <<>>
  BY <1>1 DEF IInv, TypeOK, Interrupt, Stepped, hostVars, consoleVars
<1>3. input' \in Seq(LineSet) /\ Thins(input', input)
  BY <1>1, <1>2, Cut
<1>4. MarkerIsLast'
  BY <1>2, <1>3 DEF IInv, MarkerIsLast, Thins
<1>5. FoundIsIdle'
  BY <1>2 DEF IInv, FoundIsIdle
<1>6. {shell'.seq, last', owed'} \cup jobs' \subseteq Int
  <2>1. {shell.seq, last, owed} \cup jobs \subseteq Int
    BY DEF IInv, TypeOK
  <2>2. /\ shell' \in {shell, NoLine} /\ last' \in {last, Killed}
        /\ UNCHANGED <<owed, jobs>>
    BY DEF Interrupt
  <2> QED
    BY <2>1, <2>2, Numbers
<1>7. Stepped
  BY DEF Interrupt
<1> QED
  BY <1>2, <1>3, <1>4, <1>5, <1>6, <1>7, GuestKeeps

\* A command that ends leaves the queue as it is, or takes its first line.
LEMMA EndsKeeps == ASSUME IInv, CommandEnds PROVE IInv'
<1>1. /\ out \in Seq(TokenSet) /\ input \in Seq(LineSet) /\ machine = "on"
      /\ UNCHANGED <<machine, booted, sequence, call, marker, out>> /\ shell # NoLine
      /\ input' = input \/ (input # <<>> /\ input' = Tail(input))
  <2>1. shell # NoLine
    BY DEF CommandEnds, NoLine
  <2> QED
    BY <2>1 DEF IInv, TypeOK, CommandEnds, Stepped, hostVars, consoleVars
<1>2. input' \in Seq(LineSet) /\ Thins(input', input)
  <2>1. CASE input' = input
    BY <1>1, <2>1 DEF Thins
  <2>2. CASE input # <<>> /\ input' = Tail(input)
    <3>1. \A j \in DOMAIN input' : /\ j + 1 \in DOMAIN input /\ input'[j] = input[j + 1]
                                   /\ j + 1 = Len(input) => j = Len(input')
      BY <1>1, <2>2
    <3> QED
      BY <1>1, <2>2, <3>1 DEF Thins
  <2> QED
    BY <1>1, <2>1, <2>2
<1>3. MarkerIsLast'
  BY <1>1, <1>2 DEF IInv, MarkerIsLast, Thins
<1>4. FoundIsIdle'
  BY <1>1 DEF IInv, FoundIsIdle
<1>5. {shell'.seq, last', owed'} \cup jobs' \subseteq Int
  <2>1. {shell.seq, last, owed} \cup jobs \subseteq Int
    BY DEF IInv, TypeOK
  <2>2. shell' = NoLine /\ last' = shell.seq /\ UNCHANGED <<owed, jobs>>
    BY DEF CommandEnds
  <2> QED
    BY <2>1, <2>2, Numbers
<1>6. Stepped
  BY DEF CommandEnds
<1> QED
  BY <1>1, <1>2, <1>3, <1>4, <1>5, <1>6, GuestKeeps

-----------------------------------------------------------------------------
(* A call goes on.                                                         *)

\* Moved changes the place of one call, and a call's place only.
LEMMA MovedIs ==
    ASSUME call \in [Threads -> CallSet], NEW t \in Threads,
           NEW pc \in {"check", "step"}, NEW stage \in {"boot", "exec", "recover"},
           call' = Moved(t, pc, stage)
    PROVE  /\ call' \in [Threads -> CallSet]
           /\ call'[t].pc = pc /\ call'[t].stage = stage
           /\ \A u \in Threads \ {t} : call'[u] = call[u]
<1> DEFINE n == [call[t] EXCEPT !.pc = pc, !.stage = stage]
<1>1. n \in CallSet /\ n.pc = pc /\ n.stage = stage
  <2>1. call[t] \in CallSet
    OBVIOUS
  <2> QED
    BY <2>1 DEF CallSet
<1>2. call' = [call EXCEPT ![t] = n]
  BY DEF Moved
<1> HIDE DEF n
<1> QED
  BY <1>1, <1>2

\* Between a step and the next look a call changes nothing but its place.
LEMMA PlaceKeeps ==
    ASSUME IInv, NEW t \in Threads, Busy(t), NEW pc \in {"check", "step"},
           call' = Moved(t, pc, call[t].stage),
           UNCHANGED <<machine, booted, sequence, out, marker, input, shell, last, owed, jobs>>
    PROVE  IInv'
<1>1. call[t].stage \in {"boot", "exec", "recover"} /\ call \in [Threads -> CallSet]
  BY DEF IInv, Stages, TypeOK
<1>2. /\ call' \in [Threads -> CallSet]
      /\ call'[t].pc = pc /\ call'[t].stage = call[t].stage
      /\ \A u \in Threads \ {t} : call'[u] = call[u]
  BY <1>1, MovedIs
<1>3. \A u \in Threads : (Busy(u)' <=> Busy(u)) /\ call'[u].stage = call[u].stage
  BY <1>2 DEF Busy
<1>4. TypeOK'
  BY <1>2 DEF IInv, TypeOK
<1>5. MarkerIsLast' /\ FoundIsIdle'
  BY DEF IInv, MarkerIsLast, FoundIsIdle
<1>6. BootFirst'
  <2>1. "boot" \in Threads
    BY DEF Threads
  <2>2. call'["boot"].pc = "new" => call["boot"].pc = "new"
    BY <1>2, <2>1
  <2> QED
    BY <1>3, <2>2 DEF IInv, BootFirst
<1>7. Stages'
  BY <1>3 DEF IInv, Stages
<1>8. ReadyIsIdle'
  BY <1>3 DEF IInv, ReadyIsIdle
<1> QED
  BY <1>4, <1>5, <1>6, <1>7, <1>8 DEF IInv

\* boot, until it first looks for the prompt.
LEMMA BootKeeps == ASSUME IInv, Boot PROVE IInv'
<1>1. /\ "boot" \in Threads /\ call["boot"].pc = "new"
      /\ call \in [Threads -> CallSet] /\ sequence \in Nat
      /\ call' = Moved("boot", "check", "boot")
      /\ machine' = "on" /\ shell' = Line("booting", Null, "none")
      /\ marker' = Prompt /\ out' = <<>>
      /\ UNCHANGED <<booted, sequence, input, last, owed, jobs>>
  BY DEF IInv, TypeOK, Boot, BeginWait, Threads
<1>2. /\ call' \in [Threads -> CallSet]
      /\ call'["boot"].pc = "check" /\ call'["boot"].stage = "boot"
      /\ \A u \in Threads \ {"boot"} : call'[u] = call[u]
  BY <1>1, MovedIs
<1>3. ~booted /\ input = <<>> /\ \A u \in Threads : ~Busy(u)
  BY <1>1 DEF IInv, BootFirst
<1>4. TypeOK'
  <2>1. shell'.seq \in Int /\ Prompt \in Int /\ out' \in Seq(TokenSet)
    BY <1>1 DEF Line, Null, Prompt
  <2> QED
    BY <1>1, <1>2, <2>1 DEF IInv, TypeOK
<1>5. MarkerIsLast' /\ FoundIsIdle'
  BY <1>1, <1>3 DEF MarkerIsLast, FoundIsIdle, Prompt
<1>6. BootFirst' /\ Stages'
  BY <1>1, <1>2, <1>3 DEF BootFirst, Stages, Busy
<1>7. ReadyIsIdle'
  BY <1>1, <1>3 DEF ReadyIsIdle
<1> QED
  BY <1>4, <1>5, <1>6, <1>7 DEF IInv

\* dispose.
LEMMA DisposeKeeps == ASSUME IInv, Dispose PROVE IInv'
<1>1. /\ machine # "none" /\ machine' = "none" /\ booted' = FALSE
      /\ shell' = NoLine /\ owed' = Null /\ last' = Killed /\ jobs' = {}
      /\ UNCHANGED <<sequence, call, out, marker, input>>
  BY DEF Dispose, consoleVars
<1>2. TypeOK'
  BY <1>1, Numbers DEF IInv, TypeOK
<1>3. MarkerIsLast' /\ FoundIsIdle'
  BY <1>1 DEF IInv, MarkerIsLast, FoundIsIdle
<1>4. BootFirst' /\ Stages' /\ ReadyIsIdle'
  BY <1>1 DEF IInv, BootFirst, Stages, ReadyIsIdle, Busy
<1> QED
  BY <1>2, <1>3, <1>4 DEF IInv

\* exec, until it first looks for its marker.
LEMMA ExecKeeps == ASSUME IInv, NEW t \in Calls, Exec(t) PROVE IInv'
<1>1. PICK kind \in Kinds : SendExec(t, kind)
  BY DEF Exec
<1>2. booted' = booted /\ booted \in BOOLEAN /\ t \in Threads
      /\ UNCHANGED <<machine, shell, last, owed, jobs>>
  BY DEF Exec, guestVars, IInv, TypeOK, Threads
<1> QED
  BY <1>1, <1>2, SendKeeps DEF Exec

\* _recover begins another wait, with another line to end it.
LEMMA RecoverKeeps ==
    ASSUME IInv, NEW t \in Threads, Busy(t), call[t].stage # "boot", Recover(t),
           UNCHANGED <<machine, shell, last, owed, jobs>>
    PROVE  IInv'
<1> DEFINE l1 == Line("ctrlC", Null, "none")
           l2 == Line("end", sequence, "none")
<1>1. /\ sequence \in Nat /\ marker \in Int /\ input \in Seq(LineSet)
      /\ call \in [Threads -> CallSet]
      /\ sequence' = sequence + 1 /\ marker' = sequence /\ out' = <<>>
      /\ input' = input \o <<l1, l2>> /\ call' = Moved(t, "check", "recover")
      /\ booted' = booted
  BY DEF IInv, TypeOK, Recover, NextSequence, BeginWait, FeedInput
<1>2. /\ l1 \in LineSet /\ l2 \in LineSet /\ l1.seq < sequence /\ l2.seq = sequence
      /\ l1.what # "end"
  BY <1>1 DEF Line, LineSet, KindSet, Null
<1> HIDE DEF l1, l2
<1>3. input' \in Seq(LineSet) /\ MarkerIsLast'
  <2>1. l2.seq = sequence /\ l1.what # "end" /\ l1.seq <= sequence
    BY <1>1, <1>2 DEF LineSet
  <2> QED
    BY <1>1, <1>2, <2>1, FeedKeeps
<1>4. /\ call' \in [Threads -> CallSet]
      /\ call'[t].pc = "check" /\ call'[t].stage = "recover"
      /\ \A u \in Threads \ {t} : call'[u] = call[u]
  BY <1>1, MovedIs
<1>5. TypeOK'
  BY <1>1, <1>3, <1>4 DEF IInv, TypeOK
<1>6. FoundIsIdle'
  BY <1>1 DEF FoundIsIdle
<1>7. BootFirst'
  <2>1. "boot" \in Threads /\ call["boot"].pc # "new"
    BY DEF Threads, IInv, BootFirst
  <2> QED
    BY <1>4, <2>1 DEF BootFirst
<1>8. Stages'
  <2>1. marker' # Prompt
    BY <1>1 DEF Prompt
  <2>2. \A u \in Threads \ {t} : Busy(u)' => Busy(u) /\ call'[u] = call[u]
    BY <1>4 DEF Busy
  <2> QED
    BY <1>1, <1>4, <2>1, <2>2 DEF IInv, Stages
<1>9. ReadyIsIdle'
  BY <1>4 DEF ReadyIsIdle, Busy
<1> QED
  BY <1>3, <1>5, <1>6, <1>7, <1>8, <1>9 DEF IInv

-----------------------------------------------------------------------------
(* Every step, and the theorems.                                           *)

\* Whatever a call does once it has begun.
LEMMA CallerKeeps == ASSUME IInv, NEW t \in Threads, Caller(t) PROVE IInv'
<1>1. Busy(t)
  BY DEF Caller, FoundPrompt, FoundEnd, FoundIdle, Step, Again, Expire, Down, Busy
<1>2. CASE FoundPrompt(t)
  <2>1. /\ t = "boot" /\ booted' = TRUE /\ SendExec(t, "stty")
        /\ UNCHANGED <<machine, shell, last, owed, jobs>>
    BY <1>1, <1>2 DEF FoundPrompt, IInv, Stages, guestVars
  <2>2. \A u \in Threads \ {t} : Busy(u) => call[u].stage # "boot"
    BY <2>1 DEF IInv, Stages
  <2> QED
    BY <2>1, <2>2, SendKeeps
<1>3. CASE FoundEnd(t)
  <2>1. input = <<>> /\ shell = NoLine
    BY <1>1, <1>3, FoundMeansIdle DEF FoundEnd
  <2>2. UNCHANGED <<machine, booted, shell, last, owed, jobs>> /\ UNCHANGED guestVars
    BY <1>3 DEF FoundEnd, guestVars
  <2>3. CASE End(t, MarkerAt)
    BY <1>1, <2>1, <2>2, <2>3, EndKeeps DEF End
  <2>4. CASE Return(t, MarkerAt)
    BY <1>1, <2>1, <2>2, <2>4, ReturnKeeps
  <2> QED
    BY <1>3, <2>3, <2>4 DEF FoundEnd
<1>4. CASE FoundIdle(t)
  <2>1. input = <<>> /\ shell = NoLine
    BY <1>1, <1>4, FoundMeansIdle DEF FoundIdle
  <2> QED
    BY <1>1, <1>4, <2>1, ReturnKeeps DEF FoundIdle
<1>5. CASE Step(t)
  <2>1. UNCHANGED <<machine, booted, shell, last, owed, jobs>>
    BY <1>5 DEF Step, guestVars
  <2>2. CASE machine = "none" /\ End(t, Len(out))
    BY <1>1, <2>1, <2>2, EndKeeps DEF End
  <2>3. CASE call' = Moved(t, "step", call[t].stage)
             /\ UNCHANGED <<sequence, out, marker, input>>
    BY <1>1, <2>1, <2>3, PlaceKeeps
  <2> QED
    BY <1>5, <2>2, <2>3 DEF Step
<1>6. CASE Again(t)
  BY <1>1, <1>6, PlaceKeeps DEF Again, guestVars, consoleVars
<1>7. ASSUME GiveUp(t), UNCHANGED <<machine, guestVars>> PROVE IInv'
  BY <1>1, <1>7, ReturnKeeps DEF GiveUp
<1>8. CASE Expire(t)
  <2>1. UNCHANGED <<machine, guestVars>> /\ UNCHANGED <<machine, shell, last, owed, jobs>>
    BY <1>8 DEF Expire, guestVars
  <2>2. CASE call[t].stage = "boot" /\ booted' = booted /\ End(t, scan)
    <3>1. ~booted
      BY <1>1, <2>2 DEF IInv, Stages
    <3> QED
      BY <1>1, <2>1, <2>2, <3>1, EndKeeps DEF End
  <2>3. CASE call[t].stage = "exec" /\ Recover(t)
    BY <1>1, <2>1, <2>3, RecoverKeeps
  <2> QED
    BY <1>7, <1>8, <2>1, <2>2, <2>3 DEF Expire
<1>9. CASE Down(t)
  <2>1. UNCHANGED <<machine, guestVars>> /\ machine # "on"
    BY <1>9 DEF Down
  <2>2. CASE booted' = booted /\ Return(t, scan)
    BY <1>1, <2>1, <2>2, ReturnKeeps
  <2> QED
    BY <1>7, <1>9, <2>1, <2>2 DEF Down
<1> QED
  BY <1>2, <1>3, <1>4, <1>5, <1>6, <1>8, <1>9 DEF Caller

\* Whatever the guest does.
LEMMA GuestStepKeeps == ASSUME IInv, Guest PROVE IInv'
<1>1. /\ {shell.seq, last, owed} \cup jobs \subseteq Int
      /\ UNCHANGED <<machine, booted, sequence, call, marker>> \/ ShutsDown
  BY DEF IInv, TypeOK, Guest, Prompted, ShellReads, Interrupt, StatusFollows,
         CommandWrites, CommandEnds, LeaveBehind, BackgroundWrites, hostVars, consoleVars
<1>2. ASSUME NEW n \in Int, NEW w \in {"prompt", "status", "text", "late"}
      PROVE  Token(w, n) \in TokenSet /\ Token(w, n).what # "end"
  BY DEF Token, TokenSet
<1>3. CASE Prompted
  <2>1. /\ Stepped /\ shell # NoLine /\ shell' = NoLine
        /\ Write(<<Token("prompt", Null)>>)
        /\ UNCHANGED <<machine, booted, sequence, call, marker, input, last, owed, jobs>>
    BY <1>3 DEF Prompted, NoLine, hostVars
  <2>2. {shell'.seq, last', owed'} \cup jobs' \subseteq Int
    BY <1>1, <2>1, Numbers
  <2> QED
    BY <1>2, <2>1, <2>2, Numbers, WriteKeeps
<1>4. CASE StatusFollows
  <2>1. /\ Stepped /\ owed' \in {owed, Null}
        /\ UNCHANGED <<machine, booted, sequence, call, marker, input, shell, last, jobs>>
    BY <1>4 DEF StatusFollows, hostVars
  <2>2. {shell'.seq, last', owed'} \cup jobs' \subseteq Int
    BY <1>1, <2>1, Numbers
  <2>3. \/ Write(<<Token("status", owed)>>)
        \/ Write(<<Token("status", Torn)>>) /\ Torn \in Int
    BY <1>4 DEF StatusFollows, Torn
  <2> QED
    BY <1>1, <1>2, <2>1, <2>2, <2>3, WriteKeeps
<1>5. CASE CommandWrites
  <2>1. /\ Stepped /\ Write(<<Token("text", shell.seq)>>)
        /\ UNCHANGED <<machine, booted, sequence, call, marker, input, shell, last, owed, jobs>>
    BY <1>5 DEF CommandWrites, hostVars
  <2>2. {shell'.seq, last', owed'} \cup jobs' \subseteq Int
    BY <1>1, <2>1
  <2> QED
    BY <1>1, <1>2, <2>1, <2>2, WriteKeeps
<1>6. CASE ShutsDown
  <2>1. /\ Stepped /\ machine' = "off"
        /\ UNCHANGED <<booted, sequence, call, marker, out, input, shell, last, owed, jobs>>
    BY <1>6 DEF ShutsDown, consoleVars, guestVars
  <2>2. /\ out' \in Seq(TokenSet) /\ input' \in Seq(LineSet)
        /\ {shell'.seq, last', owed'} \cup jobs' \subseteq Int
    BY <1>1, <2>1 DEF IInv, TypeOK
  <2>3. MarkerIsLast' /\ FoundIsIdle'
    BY <2>1 DEF IInv, MarkerIsLast, FoundIsIdle
  <2> QED
    BY <2>1, <2>2, <2>3, GuestKeeps
<1>7. CASE LeaveBehind
  <2>1. /\ Stepped /\ jobs' = jobs \cup {shell.seq}
        /\ UNCHANGED <<machine, booted, sequence, call, marker, out, input, shell, last, owed>>
    BY <1>7 DEF LeaveBehind, hostVars, consoleVars
  <2>2. /\ out' \in Seq(TokenSet) /\ input' \in Seq(LineSet) /\ machine' = "on"
        /\ {shell'.seq, last', owed'} \cup jobs' \subseteq Int
    BY <1>1, <2>1 DEF IInv, TypeOK, Stepped
  <2>3. MarkerIsLast' /\ FoundIsIdle'
    BY <2>1 DEF IInv, MarkerIsLast, FoundIsIdle
  <2> QED
    BY <2>1, <2>2, <2>3, GuestKeeps
<1>8. CASE BackgroundWrites
  <2>1. PICK n \in jobs : Write(<<Token("late", n)>>)
    BY <1>8 DEF BackgroundWrites
  <2>2. /\ Stepped /\ n \in Int /\ {shell'.seq, last', owed'} \cup jobs' \subseteq Int
        /\ UNCHANGED <<machine, booted, sequence, call, marker, input, shell>>
    BY <1>1, <1>8 DEF BackgroundWrites, hostVars, guestVars
  <2> QED
    BY <1>2, <2>1, <2>2, WriteKeeps
<1> QED
  BY <1>3, <1>4, <1>5, <1>6, <1>7, <1>8, ReadKeeps, InterruptKeeps, EndsKeeps DEF Guest

\* The invariant is inductive.
LEMMA StepKeeps == ASSUME IInv, [Next]_vars PROVE IInv'
<1>1. CASE UNCHANGED vars
  BY <1>1 DEF vars, hostVars, consoleVars, guestVars, IInv, TypeOK, MarkerIsLast,
              FoundIsIdle, BootFirst, Stages, ReadyIsIdle, Busy
<1>2. CASE Next
  BY <1>2, BootKeeps, DisposeKeeps, GuestStepKeeps, ExecKeeps, CallerKeeps DEF Next
<1> QED
  BY <1>1, <1>2

\* The invariant holds of every behaviour.
THEOREM SandboxInvariant == Spec => []IInv
<1>1. Init => IInv
  BY InitHolds
<1>2. IInv /\ [Next]_vars => IInv'
  BY StepKeeps
<1> QED
  BY <1>1, <1>2, PTL DEF Spec

\* The variables keep their types: no call is lost or ends up in two places,
\* and the text and the queue hold what the sandbox and the guest put there.
THEOREM SandboxTypes == Spec => []TypeOK
<1>1. IInv => TypeOK
  BY DEF IInv
<1> QED
  BY <1>1, SandboxInvariant, PTL

\* Between calls a sandbox that is ready, over a machine that runs, has a shell
\* that waits for its next line, whatever commands were stopped and however
\* calls overlapped: exec, _recover and boot leave the guest in step with them.
THEOREM SandboxReadyIsIdle == Spec => []ReadyIsIdle
<1>1. IInv => ReadyIsIdle
  BY DEF IInv
<1> QED
  BY <1>1, SandboxInvariant, PTL
-----------------------------------------------------------------------------
(* What a call returns.                                                    *)

\* A call in its wait for its own end marker, with no other in progress.
Alone(t) == Busy(t) /\ call[t].stage = "exec" /\ call[t].alone

\* What the terminal or the background writes.
IsNoise(x) == x.what \in {"echo", "late"}

\* q holds what came before command n, then its begin marker, at b.
Opened(q, n, b) ==
    /\ b \in DOMAIN q /\ q[b] = Token("begin", n)
    /\ \A i \in 1 .. b - 1 : q[i].what = "status" \/ IsNoise(q[i])

\* From there to l all that command n has written, once, w being the last that wrote.
Text(q, b, l, n) ==
    \E c \in b + 1 .. l : /\ q[c] = Token("text", n)
                          /\ \A i \in b + 1 .. l : i = c \/ IsNoise(q[i])
Between(q, b, l, n, w) ==
    IF w = n THEN Text(q, b, l, n) ELSE \A i \in b + 1 .. l : IsNoise(q[i])

Begun(q, n, w) == \E b \in DOMAIN q : Opened(q, n, b) /\ Between(q, b, Len(q), n, w)

\* Behind that its end marker, at e, and its status, up to s.
Closed(q, n, w, b, e, s) ==
    /\ Opened(q, n, b)
    /\ e \in DOMAIN q /\ b < e /\ q[e] = Token("end", n)
    /\ Between(q, b, e - 1, n, w)
    /\ s \in e .. Len(q)
    /\ \A i \in e + 1 .. s : q[i] \in {Token("status", n), Token("status", Torn)}
    /\ \A i \in s + 1 .. Len(q) : IsNoise(q[i])

\* Nothing comes into the line of a status, o, that is still to be written.
Printed(q, n, w, o) ==
    \E b, e \in DOMAIN q : \E s \in Nat : Closed(q, n, w, b, e, s) /\ (o = Null \/ s = Len(q))

EndLine(n) == Line("end", n, "status")

\* The lines fed to a guest that was idle: nothing else comes between them.
AllToRead(n) ==
    /\ machine = "on" /\ shell = NoLine
    /\ \E kind \in Kinds : input = <<Line("command", n, kind), EndLine(n)>>
    /\ \A i \in DOMAIN out : out[i].what = "status" \/ IsNoise(out[i])
    /\ wrote # n

Runs(n) ==
    /\ shell.what = "command" /\ shell.seq = n /\ owed = Null
    /\ input = <<EndLine(n)>>
    /\ Begun(out, n, wrote)

HasRun(n) ==
    /\ machine = "on" /\ shell = NoLine /\ last = n /\ owed = Null
    /\ input = <<EndLine(n)>> \/ input = <<>>
    /\ Begun(out, n, wrote)

HasPrinted(n) ==
    /\ machine = "on" /\ shell = NoLine /\ owed \in {n, Null} /\ input = <<>>
    /\ Printed(out, n, wrote, owed)

ShutDown == machine = "off" /\ out = <<>>

Undisturbed(t) ==
    /\ call[t].seq = marker /\ marker \in Nat
    /\ \A u \in Threads \ {t} : ~Busy(u)
    /\ \/ machine = "none" \/ ShutDown
       \/ AllToRead(marker) \/ Runs(marker) \/ HasRun(marker) \/ HasPrinted(marker)

\* No command has the number of the next.
Numbered == shell.seq < sequence /\ wrote \in Int /\ wrote < sequence

\* Who writes from the background was left there.
LateIsLeft ==
    machine # "none" => \A i \in DOMAIN out : out[i].what = "late" => out[i].seq \in jobs

OInv == IInv /\ Numbered /\ LateIsLeft /\ \A t \in Calls : Alone(t) => Undisturbed(t)

-----------------------------------------------------------------------------
(* What the guest writes, one piece after the other.                       *)

LEMMA Joined ==
    ASSUME NEW q \in Seq(TokenSet), NEW r \in Seq(TokenSet)
    PROVE  /\ q \o r \in Seq(TokenSet)
           /\ Len(q) \in Nat /\ Len(r) \in Nat /\ Len(q \o r) = Len(q) + Len(r)
           /\ DOMAIN q = 1 .. Len(q) /\ DOMAIN r = 1 .. Len(r)
           /\ DOMAIN (q \o r) = 1 .. Len(q) + Len(r)
           /\ \A i \in 1 .. Len(q) : (q \o r)[i] = q[i]
           /\ \A i \in Len(q) + 1 .. Len(q) + Len(r) : (q \o r)[i] = r[i - Len(q)]
BY ConcatProperties, LenProperties

LEMMA OneMore ==
    ASSUME NEW q \in Seq(TokenSet), NEW x \in TokenSet
    PROVE  /\ q \o <<x>> \in Seq(TokenSet)
           /\ Len(q) \in Nat /\ Len(q \o <<x>>) = Len(q) + 1
           /\ DOMAIN q = 1 .. Len(q) /\ DOMAIN (q \o <<x>>) = 1 .. Len(q) + 1
           /\ \A i \in 1 .. Len(q) : (q \o <<x>>)[i] = q[i]
           /\ (q \o <<x>>)[Len(q) + 1] = x
OBVIOUS

\* The echo of a line, if there is one, and what the line prints.
Pieces(n, what) == {<<Token(what, n)>>, <<Token("echo", Null), Token(what, n)>>}

LEMMA Tokens ==
    ASSUME NEW n \in Int,
           NEW what \in {"prompt", "echo", "begin", "end", "status", "text", "late"}
    PROVE  /\ Token(what, n) \in TokenSet
           /\ Token(what, n).what = what /\ Token(what, n).seq = n
           /\ Token("echo", Null) \in TokenSet /\ Token("echo", Null).what = "echo"
BY DEF Token, TokenSet, Null

LEMMA PieceIs ==
    ASSUME NEW n \in Int, NEW what \in {"begin", "end"}, NEW r \in Pieces(n, what)
    PROVE  /\ r \in Seq(TokenSet) /\ Len(r) \in {1, 2} /\ r[Len(r)] = Token(what, n)
           /\ \A i \in 1 .. Len(r) - 1 : IsNoise(r[i])
<1>1. Token(what, n) \in TokenSet /\ Token("echo", Null) \in TokenSet
      /\ IsNoise(Token("echo", Null))
  BY Tokens DEF IsNoise
<1>2. CASE r = <<Token(what, n)>>
  BY <1>1, <1>2
<1>3. CASE r = <<Token("echo", Null), Token(what, n)>>
  BY <1>1, <1>3
<1> QED
  BY <1>2, <1>3 DEF Pieces

LEMMA Longer ==
    ASSUME NEW k, NEW l, k \in Nat, l \in {1, 2}
    PROVE  /\ k + l \in 1 .. k + l /\ k + l \in k + 1 .. k + l /\ (k + l) - k = l
           /\ \A b \in 1 .. k : b < k + l
           /\ (k + l) - 1 \in Nat /\ k <= (k + l) - 1
OBVIOUS

\* The begin marker is printed behind statuses.
LEMMA BeginPrinted ==
    ASSUME NEW q \in Seq(TokenSet), NEW n \in Int, NEW w, w # n,
           \A i \in DOMAIN q : q[i].what = "status" \/ IsNoise(q[i]),
           NEW r \in Pieces(n, "begin")
    PROVE  Begun(q \o r, n, w)
<1> DEFINE s == q \o r
           b == Len(q) + Len(r)
<1>1. /\ r \in Seq(TokenSet) /\ Len(r) \in {1, 2} /\ r[Len(r)] = Token("begin", n)
      /\ \A i \in 1 .. Len(r) - 1 : IsNoise(r[i])
  BY PieceIs
<1>2. /\ Len(q) \in Nat /\ Len(s) = b /\ DOMAIN q = 1 .. Len(q) /\ DOMAIN s = 1 .. b
      /\ \A i \in 1 .. Len(q) : s[i] = q[i]
      /\ \A i \in Len(q) + 1 .. b : s[i] = r[i - Len(q)]
  BY <1>1, Joined
<1> HIDE DEF s
<1>3. b \in DOMAIN s /\ b \in Len(q) + 1 .. b /\ b - Len(q) = Len(r)
  <2>1. /\ Len(q) + Len(r) \in 1 .. b /\ Len(q) + Len(r) \in Len(q) + 1 .. b
        /\ (Len(q) + Len(r)) - Len(q) = Len(r)
    BY <1>1, <1>2, Longer, Zenon
  <2> QED
    BY <1>2, <2>1, Zenon
<1>4. s[b] = Token("begin", n)
  BY <1>1, <1>2, <1>3
<1>5. ASSUME NEW i \in 1 .. b - 1
      PROVE  s[i].what = "status" \/ IsNoise(s[i])
  <2>1. CASE i <= Len(q)
    BY <1>2, <2>1
  <2>2. CASE i > Len(q)
    <3>1. i \in Len(q) + 1 .. b /\ i - Len(q) \in 1 .. Len(r) - 1
      BY <1>1, <1>2, <2>2
    <3> QED
      BY <1>1, <1>2, <3>1
  <2> QED
    BY <1>1, <1>2, <2>1, <2>2
<1>6. Opened(s, n, b)
  BY <1>3, <1>4, <1>5 DEF Opened
<1>7. Between(s, b, Len(s), n, w)
  <2>1. b + 1 .. b = {}
    BY <1>1, <1>2
  <2> QED
    BY <1>2, <2>1 DEF Between
<1> QED
  BY <1>3, <1>6, <1>7 DEF Begun, s

\* What has been printed up to the begin marker stays.
LEMMA OpenedStays ==
    ASSUME NEW q \in Seq(TokenSet), NEW r \in Seq(TokenSet), NEW n, NEW b, Opened(q, n, b)
    PROVE  Opened(q \o r, n, b)
<1>1. /\ b \in 1 .. Len(q) /\ b \in DOMAIN (q \o r)
      /\ \A i \in 1 .. b : i \in 1 .. Len(q) /\ (q \o r)[i] = q[i]
  BY Joined DEF Opened
<1> QED
  BY <1>1, Joined DEF Opened

\* Noise does not change what the command has written.
LEMMA BetweenGrows ==
    ASSUME NEW q, NEW s, NEW b \in Nat, NEW l \in Nat, NEW m \in Nat, l <= m, NEW n, NEW w,
           Between(q, b, l, n, w), \A i \in b + 1 .. l : s[i] = q[i],
           \A i \in l + 1 .. m : i > b => IsNoise(s[i])
    PROVE  Between(s, b, m, n, w)
<1>1. ASSUME NEW i \in b + 1 .. m PROVE i \in b + 1 .. l \/ (i \in l + 1 .. m /\ i > b)
  OBVIOUS
<1>2. CASE w = n
  <2>1. PICK c \in b + 1 .. l : /\ q[c] = Token("text", n)
                                /\ \A i \in b + 1 .. l : i = c \/ IsNoise(q[i])
    BY <1>2 DEF Between, Text
  <2>2. c \in b + 1 .. m
    OBVIOUS
  <2>3. s[c] = Token("text", n) /\ \A i \in b + 1 .. m : i = c \/ IsNoise(s[i])
    BY <1>1, <2>1
  <2> QED
    BY <1>2, <2>2, <2>3 DEF Between, Text
<1>3. CASE w # n
  BY <1>1, <1>3 DEF Between
<1> QED
  BY <1>2, <1>3

\* The command writes once.
LEMMA TextWritten ==
    ASSUME NEW q \in Seq(TokenSet), NEW n \in Int, NEW w, w # n, Begun(q, n, w)
    PROVE  Begun(q \o <<Token("text", n)>>, n, n)
<1> DEFINE x == Token("text", n)
           s == q \o <<x>>
<1>1. PICK b \in DOMAIN q : Opened(q, n, b) /\ \A i \in b + 1 .. Len(q) : IsNoise(q[i])
  BY DEF Begun, Between
<1>2. x \in TokenSet /\ <<x>> \in Seq(TokenSet)
  BY Tokens
<1> HIDE DEF x
<1>3. /\ Len(q) \in Nat /\ Len(s) = Len(q) + 1 /\ b \in 1 .. Len(q) /\ s[Len(q) + 1] = x
      /\ \A i \in 1 .. Len(q) : s[i] = q[i]
  BY <1>1, <1>2, OneMore
<1>4. Opened(s, n, b) /\ b \in DOMAIN s
  BY <1>1, <1>2, OpenedStays DEF Opened
<1> HIDE DEF s
<1>5. ASSUME NEW i \in b + 1 .. Len(s) PROVE i = Len(q) + 1 \/ IsNoise(s[i])
  <2>1. i = Len(q) + 1 \/ (i \in b + 1 .. Len(q) /\ i \in 1 .. Len(q))
    BY <1>3
  <2> QED
    BY <1>1, <1>3, <2>1
<1>6. Len(q) + 1 \in b + 1 .. Len(s)
  BY <1>3
<1> QED
  BY <1>3, <1>4, <1>5, <1>6 DEF Begun, Between, Text, x, s

\* The background writes while the command runs, or before its end marker.
LEMMA LateBegun ==
    ASSUME NEW q \in Seq(TokenSet), NEW n \in Int, NEW w, Begun(q, n, w),
           NEW x \in TokenSet, IsNoise(x)
    PROVE  Begun(q \o <<x>>, n, w)
<1> DEFINE s == q \o <<x>>
<1>1. PICK b \in DOMAIN q : Opened(q, n, b) /\ Between(q, b, Len(q), n, w)
  BY DEF Begun
<1>2. /\ Len(q) \in Nat /\ Len(s) = Len(q) + 1 /\ b \in 1 .. Len(q) /\ s[Len(q) + 1] = x
      /\ \A i \in 1 .. Len(q) : s[i] = q[i]
  BY OneMore
<1>3. Opened(s, n, b) /\ b \in DOMAIN s
  BY <1>1, OpenedStays DEF Opened
<1> HIDE DEF s
<1>4. /\ b \in Nat /\ Len(s) \in Nat /\ Len(q) <= Len(s)
      /\ \A i \in b + 1 .. Len(q) : s[i] = q[i]
      /\ \A i \in Len(q) + 1 .. Len(s) : i > b => IsNoise(s[i])
  BY <1>2
<1>5. Between(s, b, Len(s), n, w)
  BY <1>1, <1>2, <1>4, BetweenGrows
<1> QED
  BY <1>3, <1>5 DEF Begun, s

\* The end marker is printed behind what the command wrote.
LEMMA EndPrinted ==
    ASSUME NEW q \in Seq(TokenSet), NEW n \in Int, NEW w, Begun(q, n, w),
           NEW r \in Pieces(n, "end"), NEW o
    PROVE  Printed(q \o r, n, w, o)
<1> DEFINE s == q \o r
           e == Len(q) + Len(r)
<1>1. /\ r \in Seq(TokenSet) /\ Len(r) \in {1, 2} /\ r[Len(r)] = Token("end", n)
      /\ \A i \in 1 .. Len(r) - 1 : IsNoise(r[i])
  BY PieceIs
<1>2. /\ Len(q) \in Nat /\ Len(s) = e /\ DOMAIN q = 1 .. Len(q) /\ DOMAIN s = 1 .. e
      /\ \A i \in 1 .. Len(q) : s[i] = q[i]
      /\ \A i \in Len(q) + 1 .. e : s[i] = r[i - Len(q)]
  BY <1>1, Joined
<1>3. PICK b \in DOMAIN q : Opened(q, n, b) /\ Between(q, b, Len(q), n, w)
  BY DEF Begun
<1>4. Opened(s, n, b) /\ b \in DOMAIN s
  BY <1>1, <1>3, OpenedStays DEF Opened
<1> HIDE DEF s
<1>5. e \in DOMAIN s /\ e \in Len(q) + 1 .. e /\ e - Len(q) = Len(r) /\ b < e /\ b \in Nat
  <2>1. b \in 1 .. Len(q) /\ b \in Nat
    BY <1>2
  <2>2. /\ Len(q) + Len(r) \in 1 .. e /\ Len(q) + Len(r) \in Len(q) + 1 .. e
        /\ (Len(q) + Len(r)) - Len(q) = Len(r) /\ b < e
    BY <1>1, <1>2, <2>1, Longer, Zenon
  <2> QED
    BY <1>2, <2>1, <2>2, Zenon
<1>6. s[e] = Token("end", n)
  BY <1>1, <1>2, <1>5
<1>7. Between(s, b, e - 1, n, w)
  <2>1. \A i \in b + 1 .. Len(q) : s[i] = q[i]
    BY <1>2, <1>5
  <2>2. ASSUME NEW i \in Len(q) + 1 .. e - 1 PROVE IsNoise(s[i])
    <3>1. i \in Len(q) + 1 .. e /\ i - Len(q) \in 1 .. Len(r) - 1
      BY <1>1, <1>2
    <3> QED
      BY <1>1, <1>2, <3>1
  <2> DEFINE m == e - 1
  <2>3. m \in Nat /\ Len(q) <= m
    BY <1>1, <1>2, Longer, Zenon
  <2> HIDE DEF m
  <2>4. \A i \in Len(q) + 1 .. m : i > b => IsNoise(s[i])
    BY <2>2 DEF m
  <2>5. Between(s, b, m, n, w)
    BY <1>2, <1>3, <1>5, <2>1, <2>3, <2>4, BetweenGrows
  <2> QED
    BY <2>5 DEF m
<1>8. e \in e .. Len(s) /\ e + 1 .. e = {} /\ e + 1 .. Len(s) = {} /\ e \in Nat
  BY <1>1, <1>2
<1>9. Closed(s, n, w, b, e, e)
  BY <1>4, <1>5, <1>6, <1>7, <1>8 DEF Closed
<1> QED
  BY <1>2, <1>4, <1>5, <1>8, <1>9 DEF Printed, s

LEMMA Places ==
    ASSUME NEW l, NEW b, NEW e, NEW s, NEW k,
           l \in Nat, b \in 1 .. l, e \in 1 .. l, b < e, s \in e .. l, k \in {s, l + 1}
    PROVE  /\ b \in 1 .. l + 1 /\ e \in 1 .. l + 1 /\ k \in Nat /\ k \in e .. l + 1
           /\ b \in Nat /\ e - 1 \in Nat /\ e - 1 <= e - 1 /\ (e - 1) + 1 .. e - 1 = {}
           /\ e - 1 <= l
           /\ s = l => \A i \in e + 1 .. l + 1 : i > s => i = l + 1
OBVIOUS

\* What is printed up to the status stays when something follows.
LEMMA ClosedStays ==
    ASSUME NEW q \in Seq(TokenSet), NEW n \in Int, NEW w, NEW b, NEW e, NEW s,
           Closed(q, n, w, b, e, s), NEW x \in TokenSet, NEW k \in {s, Len(q) + 1},
           IF k = s THEN IsNoise(x)
           ELSE s = Len(q) /\ x \in {Token("status", n), Token("status", Torn)}
    PROVE  /\ Closed(q \o <<x>>, n, w, b, e, k) /\ k \in Nat
           /\ b \in DOMAIN (q \o <<x>>) /\ e \in DOMAIN (q \o <<x>>)
           /\ Len(q \o <<x>>) = Len(q) + 1
<1> DEFINE r == q \o <<x>>
<1>1. <<x>> \in Seq(TokenSet)
  OBVIOUS
<1>2. /\ Len(q) \in Nat /\ Len(r) = Len(q) + 1
      /\ DOMAIN q = 1 .. Len(q) /\ DOMAIN r = 1 .. Len(q) + 1
      /\ \A i \in 1 .. Len(q) : r[i] = q[i]
      /\ r[Len(q) + 1] = x
  BY OneMore
<1>3. Opened(r, n, b) /\ b \in 1 .. Len(q) /\ e \in 1 .. Len(q) /\ b < e /\ s \in e .. Len(q)
  BY <1>1, <1>2, OpenedStays DEF Closed, Opened
<1> HIDE DEF r
<1>4. b \in DOMAIN r /\ e \in DOMAIN r /\ r[e] = Token("end", n) /\ k \in Nat
      /\ k \in e .. Len(r)
  <2>1. b \in DOMAIN r /\ e \in DOMAIN r /\ k \in Nat /\ k \in e .. Len(r)
    BY <1>2, <1>3, Places, Zenon
  <2>2. r[e] = q[e]
    BY <1>2, <1>3
  <2> QED
    BY <2>1, <2>2 DEF Closed
<1>5. Between(r, b, e - 1, n, w)
  <2> DEFINE m == e - 1
  <2>1. b \in Nat /\ m \in Nat /\ m <= m /\ m + 1 .. m = {} /\ m <= Len(q)
    BY <1>2, <1>3, Places, Zenon
  <2>2. Between(q, b, m, n, w)
    BY DEF Closed
  <2> HIDE DEF m
  <2>3. \A i \in b + 1 .. m : r[i] = q[i]
    BY <1>2, <2>1
  <2>4. Between(r, b, m, n, w)
    BY <2>1, <2>2, <2>3, BetweenGrows
  <2> QED
    BY <2>4 DEF m
<1>6. ASSUME NEW i \in e + 1 .. k
      PROVE  r[i] \in {Token("status", n), Token("status", Torn)}
  <2>1. CASE i <= s
    <3>1. i \in e + 1 .. s /\ i \in 1 .. Len(q)
      BY <1>2, <1>3, <1>4, <2>1
    <3> QED
      BY <1>2, <3>1 DEF Closed
  <2>2. CASE i > s
    <3>1. k # s
      BY <1>3, <2>2
    <3>2. s = Len(q) /\ k = Len(q) + 1
      BY <3>1
    <3>3. i = Len(q) + 1
      BY <1>2, <1>3, <2>2, <3>2, Places, Zenon
    <3> QED
      BY <1>2, <3>1, <3>3
  <2> QED
    BY <1>3, <2>1, <2>2
<1>7. ASSUME NEW i \in k + 1 .. Len(r)
      PROVE  IsNoise(r[i])
  <2>1. k = s
    <3>1. k # Len(q) + 1
      BY <1>2
    <3> QED
      BY <3>1
  <2>2. CASE i = Len(q) + 1
    BY <1>2, <2>1, <2>2
  <2>3. CASE i # Len(q) + 1
    <3>1. i \in s + 1 .. Len(q) /\ i \in 1 .. Len(q)
      BY <1>2, <1>3, <1>4, <2>1, <2>3
    <3> QED
      BY <1>2, <3>1 DEF Closed
  <2> QED
    BY <2>2, <2>3
<1>8. Closed(r, n, w, b, e, k)
  BY <1>3, <1>4, <1>5, <1>6, <1>7 DEF Closed
<1> QED
  BY <1>2, <1>4, <1>8 DEF r

\* The status follows, in one piece or two.
LEMMA StatusPrinted ==
    ASSUME NEW q \in Seq(TokenSet), NEW n \in Int, NEW w, NEW o, o # Null, Printed(q, n, w, o),
           NEW x \in {Token("status", n), Token("status", Torn)}, NEW p
    PROVE  Printed(q \o <<x>>, n, w, p)
<1>1. PICK b \in DOMAIN q, e \in DOMAIN q : Closed(q, n, w, b, e, Len(q))
  BY DEF Printed
<1>2. x \in TokenSet /\ Len(q) \in Nat
  BY Tokens, LenProperties DEF Torn
<1>3. Len(q) + 1 \in {Len(q), Len(q) + 1} /\ Len(q) + 1 # Len(q)
  BY <1>2
<1> DEFINE k == Len(q) + 1
<1> HIDE DEF k
<1>4. k \in {Len(q), Len(q) + 1} /\ k # Len(q)
  BY <1>3 DEF k
<1>5. /\ Closed(q \o <<x>>, n, w, b, e, k) /\ k \in Nat
      /\ b \in DOMAIN (q \o <<x>>) /\ e \in DOMAIN (q \o <<x>>)
      /\ Len(q \o <<x>>) = Len(q) + 1
  BY <1>1, <1>2, <1>4, ClosedStays
<1> QED
  BY <1>5 DEF Printed, k

\* The background writes behind it.
LEMMA LatePrinted ==
    ASSUME NEW q \in Seq(TokenSet), NEW n \in Int, NEW w, Printed(q, n, w, Null),
           NEW x \in TokenSet, IsNoise(x)
    PROVE  Printed(q \o <<x>>, n, w, Null)
<1>1. PICK b \in DOMAIN q, e \in DOMAIN q, s \in Nat : Closed(q, n, w, b, e, s)
  BY DEF Printed
<1>2. /\ Closed(q \o <<x>>, n, w, b, e, s)
      /\ b \in DOMAIN (q \o <<x>>) /\ e \in DOMAIN (q \o <<x>>)
  BY <1>1, ClosedStays
<1> QED
  BY <1>2 DEF Printed

\* Text holds, once, what command n wrote, w being the last that wrote, and noise.
OnlySays(text, n, w) ==
    /\ \A i \in DOMAIN text : text[i] = Token("text", n) \/ IsNoise(text[i])
    /\ Cardinality({i \in DOMAIN text : text[i] = Token("text", n)}) = IF n = w THEN 1 ELSE 0

\* So does what is between the two markers, and all of it is in the whole.
LEMMA OnlyItsText ==
    ASSUME NEW q \in Seq(TokenSet), NEW n \in Int, NEW w, NEW b, NEW e, NEW s,
           Closed(q, n, w, b, e, s)
    PROVE  /\ OnlySays(SubSeq(q, b + 1, e - 1), n, w)
           /\ \A i \in DOMAIN SubSeq(q, b + 1, e - 1) :
                b + i \in DOMAIN q /\ SubSeq(q, b + 1, e - 1)[i] = q[b + i]
<1> DEFINE text == SubSeq(q, b + 1, e - 1)
           m == e - 1 - b
           x == Token("text", n)
<1>1. /\ b \in Nat \ {0} /\ e \in Nat \ {0} /\ b < e /\ e <= Len(q) /\ Len(q) \in Nat
      /\ m \in Nat /\ DOMAIN q = 1 .. Len(q)
  BY LenProperties DEF Closed, Opened
<1>2. /\ DOMAIN text = 1 .. m
      /\ \A i \in 1 .. m : text[i] = q[b + i]
  BY <1>1
<1>3. ~IsNoise(x)
  BY DEF Token, IsNoise
<1> HIDE DEF text, x
<1>4. ASSUME NEW i \in 1 .. m
      PROVE  b + i \in b + 1 .. e - 1 /\ b + i \in DOMAIN q
  BY <1>1
<1>5. OnlySays(text, n, w)
  <2>1. Cardinality({}) = 0 /\ \A i : Cardinality({i}) = 1
    BY FS_Singleton, FS_EmptySet
  <2>2. CASE w = n
    <3>1. PICK c \in b + 1 .. e - 1 : q[c] = x /\ \A i \in b + 1 .. e - 1 : i = c \/ IsNoise(q[i])
      BY <2>2 DEF Closed, Between, Text, x
    <3>2. c - b \in 1 .. m /\ b + (c - b) = c /\ \A i \in 1 .. m : b + i = c => i = c - b
      BY <1>1
    <3>3. \A i \in 1 .. m : text[i] = IF i = c - b THEN x ELSE q[b + i]
      BY <1>2, <3>1, <3>2
    <3>4. \A i \in 1 .. m : i # c - b => IsNoise(text[i])
      BY <1>2, <1>4, <3>1, <3>2
    <3>5. {i \in DOMAIN text : text[i] = x} = {c - b}
      BY <1>2, <1>3, <3>2, <3>3, <3>4
    <3>6. Cardinality({i \in DOMAIN text : text[i] = x}) = 1
      BY <2>1, <3>5, Zenon
    <3> QED
      BY <1>2, <2>2, <3>3, <3>4, <3>6 DEF OnlySays, x
  <2>3. CASE w # n
    <3>1. \A i \in b + 1 .. e - 1 : IsNoise(q[i])
      BY <2>3 DEF Closed, Between
    <3>2. \A i \in 1 .. m : IsNoise(text[i])
      BY <1>2, <1>4, <3>1
    <3>3. {i \in DOMAIN text : text[i] = x} = {}
      BY <1>2, <1>3, <3>2
    <3>4. Cardinality({i \in DOMAIN text : text[i] = x}) = 0
      BY <2>1, <3>3, Zenon
    <3> QED
      BY <1>2, <2>3, <3>2, <3>4 DEF OnlySays, x
  <2> QED
    BY <2>2, <2>3
<1> QED
  BY <1>2, <1>4, <1>5 DEF text

\* What is behind the end marker is the status, or its first digits.
LEMMA OnlyItsStatus ==
    ASSUME OInv, NEW n \in Int, NEW w, NEW b, NEW e, NEW s, Closed(out, n, w, b, e, s)
    PROVE  ExitCode(e) \in {n, Torn, Null}
<1> DEFINE tail == {k \in e + 1 .. Len(out) : \A j \in e + 1 .. k : out[j].what = "status"}
           l == Len(out)
<1>1. e \in Nat /\ l \in Nat /\ s \in Nat /\ e <= s /\ s <= l
  BY LenProperties DEF Closed, OInv, IInv, TypeOK
<1>2. /\ \A i \in e + 1 .. s : out[i].what = "status" /\ out[i].seq \in {n, Torn}
      /\ \A i \in s + 1 .. l : out[i].what # "status"
  BY DEF Closed, Token, IsNoise
<1>3. tail = e + 1 .. s
  <2>1. ASSUME NEW k \in tail PROVE k \in e + 1 .. s
    <3>1. k > s => s + 1 \in e + 1 .. k /\ s + 1 \in s + 1 .. l
      BY <1>1
    <3> QED
      BY <1>1, <1>2, <3>1
  <2>2. ASSUME NEW k \in e + 1 .. s PROVE k \in tail
    BY <1>1, <1>2
  <2> QED
    BY <2>1, <2>2
<1> HIDE DEF tail, l
<1>4. CASE tail = {}
  BY <1>4 DEF ExitCode, tail
<1>5. CASE tail # {}
  <2>1. s \in tail /\ \A j \in tail : j <= s
    BY <1>1, <1>3, <1>5
  <2> DEFINE last_ == CHOOSE k \in tail : \A j \in tail : j <= k
  <2>2. last_ \in tail
    BY <2>1
  <2> HIDE DEF last_
  <2>3. out[last_].seq \in {n, Torn}
    BY <1>2, <1>3, <2>2
  <2>4. ExitCode(e) = out[last_].seq
    BY <1>5 DEF ExitCode, tail, last_
  <2> QED
    BY <2>3, <2>4
<1> QED
  BY <1>4, <1>5

\* There is one begin marker and one end marker, and the console finds them.
LEMMA BothFound ==
    ASSUME OInv, NEW n \in Int, n = marker, marker # Prompt, NEW w, NEW b, NEW e, NEW s,
           Closed(out, n, w, b, e, s), MarkerFound
    PROVE  MarkerAt = e /\ Stdout(n, e) = SubSeq(out, b + 1, e - 1)
<1>1. /\ b \in Nat \ {0} /\ e \in Nat \ {0} /\ b < e /\ e <= Len(out) /\ Len(out) \in Nat
      /\ DOMAIN out = 1 .. Len(out) /\ out[b] = Token("begin", n) /\ out[e] = Token("end", n)
      /\ s \in Int
  BY LenProperties DEF Closed, Opened, OInv, IInv, TypeOK
<1>2. ASSUME NEW i \in DOMAIN out
      PROVE  /\ out[i] = Token("end", n) => i = e
             /\ out[i] = Token("begin", n) => i = b \/ e <= i
  <2>1. CASE i < b
    BY <1>1, <2>1 DEF Closed, Opened, Token, IsNoise
  <2>2. CASE i = b
    BY <1>1, <2>2 DEF Token
  <2>3. CASE b < i /\ i < e
    <3>1. i \in b + 1 .. e - 1
      BY <1>1, <2>3
    <3>2. out[i] = Token("text", n) \/ IsNoise(out[i])
      BY <3>1 DEF Closed, Between, Text
    <3> QED
      BY <3>2 DEF Token, IsNoise
  <2>4. CASE i = e
    BY <1>1, <2>4 DEF Token
  <2>5. CASE e < i
    <3>1. i \in e + 1 .. s \/ i \in s + 1 .. Len(out)
      BY <1>1, <2>5
    <3>2. out[i].what = "status" \/ IsNoise(out[i])
      BY <3>1 DEF Closed, Token
    <3> QED
      BY <1>1, <2>5, <3>2 DEF Token, IsNoise
  <2>6. i < b \/ i = b \/ (b < i /\ i < e) \/ i = e \/ e < i
    BY <1>1
  <2> QED
    BY <2>1, <2>2, <2>3, <2>4, <2>5, <2>6
<1>3. Matches = {e}
  <2>1. \A i \in DOMAIN out : IsMarker(i) <=> out[i] = Token("end", n)
    BY DEF IsMarker
  <2>2. Matches \subseteq {e}
    BY <1>2, <2>1 DEF Matches
  <2> QED
    BY <2>2 DEF MarkerFound
<1>4. MarkerAt = e
  <2>1. \A j \in {e} : e <= j
    BY <1>1
  <2> QED
    BY <1>3, <2>1 DEF MarkerAt
<1>5. {c \in 1 .. e - 1 : out[c] = Token("begin", n)} = {b}
  <2>1. \A c \in 1 .. e - 1 : c \in DOMAIN out /\ ~(e <= c)
    BY <1>1
  <2>2. b \in 1 .. e - 1
    BY <1>1
  <2> QED
    BY <1>1, <1>2, <2>1, <2>2
<1>6. Stdout(n, e) = SubSeq(out, b + 1, e - 1)
  <2> DEFINE begins == {c \in 1 .. e - 1 : out[c] = Token("begin", n)}
             first == CHOOSE c \in begins : \A d \in begins : c <= d
  <2>1. begins = {b}
    BY <1>5
  <2>2. Stdout(n, e) = SubSeq(out, IF begins = {} THEN 1 ELSE first + 1, e - 1)
    BY DEF Stdout
  <2> HIDE DEF begins
  <2>3. first = b
    <3>1. \A d \in {b} : b <= d
      BY <1>1
    <3> QED
      BY <2>1, <3>1
  <2> QED
    BY <2>1, <2>2, <2>3
<1> QED
  BY <1>4, <1>6

\* Where the marker can be found, the command has printed it.
LEMMA FoundMeansPrinted ==
    ASSUME OInv, NEW t \in Calls, Alone(t), machine # "none", MarkerFound
    PROVE  HasPrinted(marker) /\ call[t].seq = marker /\ marker \in Nat
<1>1. Undisturbed(t) /\ marker \in Nat /\ marker # Prompt
  BY DEF OInv, Undisturbed, Prompt
<1>2. PICK i \in DOMAIN out : out[i] = Token("end", marker)
  BY <1>1 DEF MarkerFound, Matches, IsMarker
<1>3. ~ShutDown /\ ~AllToRead(marker)
  BY <1>2 DEF ShutDown, AllToRead, Token, IsNoise
<1>4. ~Begun(out, marker, wrote)
  <2> SUFFICES ASSUME NEW b \in DOMAIN out, Opened(out, marker, b),
                      Between(out, b, Len(out), marker, wrote)
               PROVE  FALSE
    BY DEF Begun
  <2>1. DOMAIN out = 1 .. Len(out) /\ Len(out) \in Nat
    BY LenProperties DEF OInv, IInv, TypeOK
  <2>2. i \in 1 .. b - 1 \/ i = b \/ i \in b + 1 .. Len(out)
    BY <2>1
  <2>3. i \in b + 1 .. Len(out) => out[i] = Token("text", marker) \/ IsNoise(out[i])
    BY DEF Between, Text
  <2> QED
    BY <1>2, <2>2, <2>3 DEF Opened, Token, IsNoise
<1> QED
  BY <1>1, <1>3, <1>4 DEF Undisturbed, Runs, HasRun

LEMMA OwnIsReturned == ASSUME OInv PROVE OwnOutput
<1> SUFFICES ASSUME NEW t \in Calls, Returns(t)
             PROVE  LET result == Result(t)
                        text == result.stdout
                        own == Token("text", call[t].seq)
                    IN  /\ result.exit \in {call[t].seq, Torn, Null}
                        /\ \A i \in DOMAIN text :
                             \/ text[i] = own
                             \/ text[i].what = "echo"
                             \/ text[i].what = "late" /\ text[i].seq \in jobs
                        /\ Cardinality({i \in DOMAIN text : text[i] = own}) =
                             IF call[t].seq = wrote THEN 1 ELSE 0
  BY DEF OwnOutput
<1>1. Alone(t) /\ machine # "none" /\ MarkerFound
  BY DEF Returns, Alone, Busy
<1>2. HasPrinted(marker) /\ call[t].seq = marker /\ marker \in Nat /\ out \in Seq(TokenSet)
  BY <1>1, FoundMeansPrinted DEF OInv, IInv, TypeOK
<1>3. PICK b \in DOMAIN out, e \in DOMAIN out, s \in Nat : Closed(out, marker, wrote, b, e, s)
  BY <1>2 DEF HasPrinted, Printed
<1>4. marker \in Int /\ marker # Prompt
  BY <1>2 DEF Prompt
<1> DEFINE text == SubSeq(out, b + 1, e - 1)
<1>5. MarkerAt = e /\ Stdout(marker, e) = text
  BY <1>1, <1>3, <1>4, BothFound
<1>6. ExitCode(e) \in {marker, Torn, Null}
  BY <1>3, <1>4, OnlyItsStatus
<1>7. /\ OnlySays(text, marker, wrote)
      /\ \A i \in DOMAIN text : b + i \in DOMAIN out /\ text[i] = out[b + i]
  <2>1. Closed(out, marker, wrote, b, e, s) /\ marker \in Int
    BY <1>3, <1>4
  <2> HIDE DEF text
  <2>2. text = SubSeq(out, b + 1, e - 1)
    BY DEF text
  <2>3. /\ OnlySays(SubSeq(out, b + 1, e - 1), marker, wrote)
        /\ \A i \in DOMAIN SubSeq(out, b + 1, e - 1) :
             b + i \in DOMAIN out /\ SubSeq(out, b + 1, e - 1)[i] = out[b + i]
    BY <1>2, <2>1, OnlyItsText
  <2> QED
    BY <2>2, <2>3
<1> HIDE DEF text
<1>8. \A i \in DOMAIN text : text[i].what = "late" => text[i].seq \in jobs
  BY <1>1, <1>7 DEF OInv, LateIsLeft
<1>9. Result(t).exit = ExitCode(MarkerAt) /\ Result(t).stdout = Stdout(call[t].seq, MarkerAt)
  BY DEF Result
<1>10. Result(t).exit = ExitCode(e) /\ Result(t).stdout = text
  BY <1>2, <1>5, <1>9, Zenon
<1>11. /\ Result(t).exit \in {call[t].seq, Torn, Null}
       /\ OnlySays(text, call[t].seq, wrote)
  BY <1>2, <1>6, <1>7, <1>10, Zenon
<1> QED
  BY <1>8, <1>10, <1>11 DEF OnlySays, IsNoise

-----------------------------------------------------------------------------
(* The guest, while a call is alone.                                       *)

\* No step of the guest changes who is alone, or what is waited for.
LEMMA AloneStays ==
    ASSUME IInv, NEW t \in Calls, Guest, Alone(t)'
    PROVE  /\ Alone(t) /\ call' = call /\ marker' = marker /\ Stepped
           /\ \A u \in Threads : Busy(u)' <=> Busy(u)
<1>1. call' = call /\ marker' = marker /\ Stepped
  BY DEF Guest, Prompted, ShellReads, Interrupt, StatusFollows, CommandWrites, CommandEnds,
         ShutsDown, LeaveBehind, BackgroundWrites, hostVars, consoleVars
<1> QED
  BY <1>1 DEF Alone, Busy

LEMMA TwoPieces ==
    ASSUME NEW x, NEW y
    PROVE  <<>> \o <<x>> = <<x>> /\ <<y>> \o <<x>> = <<y, x>>
<1> DEFINE s == <<y>> \o <<x>>
           r == <<y, x>>
<1>1. <<>> \o <<x>> = <<x>>
  OBVIOUS
<1>2. s \in Seq({x, y}) /\ Len(s) = 2 /\ s[1] = y /\ s[2] = x
  OBVIOUS
<1>3. r \in Seq({x, y}) /\ Len(r) = 2 /\ r[1] = y /\ r[2] = x
  OBVIOUS
<1> HIDE DEF s, r
<1>4. \A i \in 1 .. 2 : s[i] = r[i]
  BY <1>2, <1>3
<1>5. s = r
  BY <1>2, <1>3, <1>4, SeqEqual
<1> QED
  BY <1>1, <1>5 DEF s, r

\* The line read is printed, behind its echo.
LEMMA ReadPrints ==
    ASSUME ShellReads
    PROVE  \E r \in Pieces(Head(input).seq, IF Head(input).what = "command"
                                             THEN "begin" ELSE "end") : out' = out \o r
<1> DEFINE line == Head(input)
           what == IF line.what = "command" THEN "begin" ELSE "end"
           echo == IF quiet THEN <<>> ELSE <<Token("echo", Null)>>
           r == echo \o <<Token(what, line.seq)>>
<1>1. out' = out \o r
  BY DEF ShellReads, Write
<1>2. r \in Pieces(line.seq, what)
  BY TwoPieces, Zenon DEF Pieces
<1> QED
  BY <1>1, <1>2

\* What a background process writes.
LEMMA LateIsNoise ==
    ASSUME IInv, BackgroundWrites
    PROVE  \E n \in jobs : /\ Token("late", n) \in TokenSet /\ IsNoise(Token("late", n))
                           /\ out' = out \o <<Token("late", n)>>
<1>1. PICK n \in jobs : Write(<<Token("late", n)>>)
  BY DEF BackgroundWrites
<1>2. n \in Int
  BY DEF IInv, TypeOK
<1> QED
  BY <1>1, <1>2, Tokens DEF Write, IsNoise

\* The guest has read nothing yet: it writes what is left of a status, or reads
\* the command.
LEMMA AsksNext ==
    ASSUME IInv, NEW n \in Nat, n = marker, AllToRead(n), Guest
    PROVE  AllToRead(n)' \/ Runs(n)'
<1> USE DEF AllToRead
<1>1. PICK kind \in Kinds : input = <<Line("command", n, kind), EndLine(n)>>
  OBVIOUS
<1>2. /\ DOMAIN input = {1, 2} /\ Head(input) = Line("command", n, kind)
      /\ Tail(input) = <<EndLine(n)>>
      /\ \A i \in DOMAIN input : input[i].what # "ctrlC"
  <2>1. DOMAIN input = 1 .. 2 /\ 1 .. 2 = {1, 2}
    BY <1>1
  <2> QED
    BY <1>1, <2>1 DEF Line, EndLine
<1>3. CASE ShellReads
  <2>1. /\ Head(input).what = "command" /\ Head(input).seq = n
        /\ shell' = Head(input) /\ owed' = Null /\ input' = <<EndLine(n)>>
        /\ wrote' = wrote /\ out \in Seq(TokenSet)
    BY <1>2, <1>3 DEF ShellReads, Line, IInv, TypeOK
  <2>2. PICK r \in Pieces(n, "begin") : out' = out \o r
    BY <1>3, <2>1, ReadPrints
  <2>3. Begun(out', n, wrote')
    BY <2>1, <2>2, BeginPrinted
  <2> QED
    BY <2>1, <2>3 DEF Runs, EndLine, Line
<1>4. CASE StatusFollows
  <2>1. /\ UNCHANGED <<machine, shell, input, wrote>> /\ out \in Seq(TokenSet)
        /\ \E k \in Int : out' = out \o <<Token("status", k)>>
    <3>1. Torn \in Int /\ owed \in Int
      BY DEF Torn, IInv, TypeOK
    <3> QED
      BY <1>4, <3>1 DEF StatusFollows, Write, hostVars, IInv, TypeOK
  <2>2. PICK k \in Int : out' = out \o <<Token("status", k)>>
    BY <2>1
  <2>3. \A i \in DOMAIN out' : out'[i].what = "status" \/ IsNoise(out'[i])
    <3>1. Token("status", k) \in TokenSet /\ Token("status", k).what = "status"
      BY Tokens
    <3> QED
      BY <2>1, <2>2, <3>1, OneMore
  <2> QED
    BY <2>1, <2>3 DEF EndLine
<1>5. CASE BackgroundWrites
  <2>1. /\ UNCHANGED <<machine, shell, input, wrote>> /\ out \in Seq(TokenSet)
        /\ \E x \in TokenSet : IsNoise(x) /\ out' = out \o <<x>>
    BY <1>5, LateIsNoise DEF hostVars, guestVars, BackgroundWrites, IInv, TypeOK
  <2>2. PICK x \in TokenSet : IsNoise(x) /\ out' = out \o <<x>>
    BY <2>1
  <2>3. \A i \in DOMAIN out' : out'[i].what = "status" \/ IsNoise(out'[i])
    BY <2>1, <2>2, OneMore
  <2> QED
    BY <2>1, <2>3 DEF EndLine
<1>6. ~Prompted /\ ~CommandWrites /\ ~CommandEnds /\ ~ShutsDown /\ ~Interrupt /\ ~LeaveBehind
  <2>1. shell.what = "none" /\ shell.kind = "none"
    BY DEF NoLine
  <2>2. ~Interrupt
    BY <1>2 DEF Interrupt
  <2> QED
    BY <2>1, <2>2 DEF Prompted, CommandWrites, CommandEnds, ShutsDown, LeaveBehind
<1> QED
  BY <1>3, <1>4, <1>5, <1>6 DEF Guest

\* Its command runs: it writes once, ends, perhaps with the end marker's line
\* read, or shuts the guest down.
LEMMA RunsNext ==
    ASSUME IInv, NEW n \in Nat, n = marker, Runs(n), Guest
    PROVE  Runs(n)' \/ HasRun(n)'
<1> USE DEF Runs
<1>1. /\ shell # NoLine /\ out \in Seq(TokenSet) /\ n \in Int
      /\ DOMAIN input = {1} /\ input[1].what # "ctrlC" /\ Tail(input) = <<>>
  <2>1. DOMAIN input = 1 .. 1 /\ 1 .. 1 = {1}
    OBVIOUS
  <2> QED
    BY <2>1 DEF IInv, TypeOK, NoLine, EndLine, Line
<1>2. ~Prompted /\ ~ShellReads /\ ~Interrupt /\ ~StatusFollows
  BY <1>1 DEF Prompted, ShellReads, Interrupt, StatusFollows
<1>3. CASE CommandWrites
  <2>1. /\ wrote # n /\ wrote' = n /\ out' = out \o <<Token("text", n)>>
        /\ UNCHANGED <<shell, input, owed>>
    BY <1>3 DEF CommandWrites, Write
  <2>2. Begun(out', n, wrote')
    BY <1>1, <2>1, TextWritten
  <2> QED
    BY <2>1, <2>2 DEF EndLine
<1>4. CASE CommandEnds
  <2>1. /\ machine = "on" /\ UNCHANGED <<machine, out, wrote, owed>> /\ shell' = NoLine
        /\ last' = n /\ input' \in {input, <<>>}
    BY <1>1, <1>4 DEF CommandEnds, Stepped, hostVars, consoleVars
  <2> QED
    BY <2>1 DEF HasRun, EndLine
<1>5. CASE ShutsDown
  BY <1>5 DEF ShutsDown, consoleVars, guestVars, EndLine
<1>6. CASE LeaveBehind
  BY <1>6 DEF LeaveBehind, consoleVars, EndLine
<1>7. CASE BackgroundWrites
  <2>1. UNCHANGED <<shell, owed, input, wrote>>
    BY <1>7 DEF BackgroundWrites, guestVars
  <2>2. Begun(out', n, wrote')
    BY <1>1, <1>7, <2>1, LateIsNoise, LateBegun
  <2> QED
    BY <2>1, <2>2 DEF EndLine
<1> QED
  BY <1>2, <1>3, <1>4, <1>5, <1>6, <1>7 DEF Guest

\* The end marker's line is read, if it is still there.
LEMMA HasRunNext ==
    ASSUME IInv, NEW n \in Nat, n = marker, HasRun(n), Guest
    PROVE  HasRun(n)' \/ HasPrinted(n)'
<1> USE DEF HasRun
<1>1. shell.what = "none" /\ shell.kind = "none" /\ out \in Seq(TokenSet) /\ n \in Int
  BY DEF NoLine, IInv, TypeOK
<1>2. \A i \in DOMAIN input : input[i].what # "ctrlC"
  <2>1. CASE input = <<EndLine(n)>>
    <3>1. DOMAIN input = 1 .. 1 /\ 1 .. 1 = {1}
      BY <2>1
    <3> QED
      BY <2>1, <3>1 DEF EndLine, Line
  <2>2. CASE input = <<>>
    BY <2>2
  <2> QED
    BY <2>1, <2>2
<1>3. /\ ~Prompted /\ ~CommandWrites /\ ~CommandEnds /\ ~ShutsDown /\ ~Interrupt
      /\ ~StatusFollows /\ ~LeaveBehind
  BY <1>1, <1>2 DEF Prompted, CommandWrites, CommandEnds, ShutsDown, Interrupt, StatusFollows,
                    LeaveBehind
<1>4. CASE ShellReads
  <2>1. input = <<EndLine(n)>>
    BY <1>4 DEF ShellReads
  <2>2. /\ Head(input) = EndLine(n) /\ Tail(input) = <<>>
        /\ EndLine(n).what = "end" /\ EndLine(n).kind = "status" /\ EndLine(n).seq = n
    BY <2>1 DEF EndLine, Line
  <2>3. /\ shell' = NoLine /\ owed' = n /\ input' = <<>> /\ UNCHANGED <<machine, wrote>>
    BY <1>4, <2>2 DEF ShellReads, hostVars
  <2>4. PICK r \in Pieces(n, "end") : out' = out \o r
    BY <1>4, <2>2, ReadPrints
  <2>5. Printed(out', n, wrote', owed')
    BY <1>1, <2>3, <2>4, EndPrinted
  <2> QED
    BY <2>3, <2>5 DEF HasPrinted
<1>5. CASE BackgroundWrites
  <2>1. UNCHANGED <<machine, shell, last, owed, input, wrote>>
    BY <1>5 DEF BackgroundWrites, guestVars, hostVars
  <2>2. Begun(out', n, wrote')
    BY <1>1, <1>5, <2>1, LateIsNoise, LateBegun
  <2> QED
    BY <2>1, <2>2 DEF EndLine
<1> QED
  BY <1>3, <1>4, <1>5 DEF Guest

\* The status follows.
LEMMA HasPrintedNext ==
    ASSUME IInv, NEW n \in Nat, n = marker, HasPrinted(n), Guest
    PROVE  HasPrinted(n)'
<1> USE DEF HasPrinted
<1>1. shell.what = "none" /\ shell.kind = "none" /\ out \in Seq(TokenSet) /\ n \in Int
  BY DEF NoLine, IInv, TypeOK
<1>2. /\ ~Prompted /\ ~CommandWrites /\ ~CommandEnds /\ ~ShutsDown /\ ~Interrupt
      /\ ~ShellReads /\ ~LeaveBehind
  BY <1>1 DEF Prompted, CommandWrites, CommandEnds, ShutsDown, Interrupt, ShellReads, LeaveBehind
<1>3. CASE StatusFollows
  <2>1. /\ UNCHANGED <<machine, shell, input, wrote>> /\ owed = n /\ owed' \in {n, Null}
        /\ owed # Null
        /\ \E x \in {Token("status", n), Token("status", Torn)} : out' = out \o <<x>>
    BY <1>3 DEF StatusFollows, Write, hostVars
  <2>2. Printed(out', n, wrote', owed')
    BY <1>1, <2>1, StatusPrinted
  <2> QED
    BY <2>1, <2>2
<1>4. CASE BackgroundWrites
  <2>1. UNCHANGED <<machine, shell, owed, input, wrote>> /\ owed = Null
    BY <1>4 DEF BackgroundWrites, guestVars, hostVars
  <2>2. Printed(out', n, wrote', owed')
    BY <1>1, <1>4, <2>1, LateIsNoise, LatePrinted
  <2> QED
    BY <2>1, <2>2
<1> QED
  BY <1>2, <1>3, <1>4 DEF Guest

\* Whatever the guest does it serves the call that is alone.
LEMMA GuestServes ==
    ASSUME OInv, NEW t \in Calls, Guest, Alone(t)'
    PROVE  Undisturbed(t)'
<1>1. /\ Alone(t) /\ call' = call /\ marker' = marker /\ Stepped
      /\ \A u \in Threads : Busy(u)' <=> Busy(u)
  BY AloneStays DEF OInv
<1>2. Undisturbed(t) /\ marker \in Nat /\ IInv
  BY <1>1 DEF OInv, Undisturbed
<1>3. machine = "on" /\ ~ShutDown
  BY <1>1 DEF Stepped, ShutDown
<1>4. \/ AllToRead(marker)' \/ Runs(marker)' \/ HasRun(marker)' \/ HasPrinted(marker)'
  <2> DEFINE n == marker
  <2>1. AllToRead(n) \/ Runs(n) \/ HasRun(n) \/ HasPrinted(n)
    BY <1>2, <1>3 DEF Undisturbed
  <2>2. AllToRead(n) => AllToRead(marker)' \/ Runs(marker)'
    BY <1>1, <1>2, AsksNext DEF AllToRead, Runs, EndLine
  <2>3. Runs(n) => Runs(marker)' \/ HasRun(marker)'
    BY <1>1, <1>2, RunsNext DEF Runs, HasRun, EndLine
  <2>4. HasRun(n) => HasRun(marker)' \/ HasPrinted(marker)'
    BY <1>1, <1>2, HasRunNext DEF HasRun, HasPrinted, EndLine
  <2>5. HasPrinted(n) => HasPrinted(marker)'
    BY <1>1, <1>2, HasPrintedNext DEF HasPrinted
  <2> QED
    BY <2>1, <2>2, <2>3, <2>4, <2>5
<1> QED
  BY <1>1, <1>2, <1>4 DEF Undisturbed

-----------------------------------------------------------------------------
(* The calls, while one is alone.                                          *)

LEMMA NumberedKeeps ==
    ASSUME OInv, [Next]_vars
    PROVE  Numbered'
<1>1. /\ sequence \in Nat /\ {shell.seq, last, owed} \cup jobs \subseteq Int
      /\ input \in Seq(LineSet) /\ NoLine.seq = Null /\ Null \in Int /\ Null < 0 /\ Numbered
  BY DEF OInv, IInv, TypeOK, NoLine, Null
<1>2. CASE Guest
  <2>1. sequence' = sequence
    BY <1>2 DEF Guest, Prompted, ShellReads, Interrupt, StatusFollows, CommandWrites,
                CommandEnds, ShutsDown, LeaveBehind, BackgroundWrites, hostVars
  <2>2. wrote' \in {wrote, shell.seq}
    BY <1>2 DEF Guest, Prompted, ShellReads, Interrupt, StatusFollows, CommandWrites,
                CommandEnds, ShutsDown, LeaveBehind, BackgroundWrites, guestVars
  <2>3. shell' \in {shell, NoLine} \/ (input # <<>> /\ shell' = Head(input))
    BY <1>2 DEF Guest, Prompted, ShellReads, Interrupt, StatusFollows, CommandWrites,
                CommandEnds, ShutsDown, LeaveBehind, BackgroundWrites, guestVars
  <2>4. input # <<>> => Head(input).seq < sequence
    <3>1. input # <<>> => 1 \in DOMAIN input /\ Head(input) = input[1]
      BY <1>1
    <3> QED
      BY <3>1 DEF OInv, IInv, MarkerIsLast
  <2> QED
    BY <1>1, <2>1, <2>2, <2>3, <2>4 DEF OInv, Numbered
<1>3. CASE Boot \/ Dispose
  <2>1. /\ sequence' = sequence /\ wrote' \in {wrote, Null}
        /\ shell'.seq = Null
    BY <1>1, <1>3 DEF Boot, Dispose, Line
  <2> QED
    BY <1>1, <2>1 DEF OInv, Numbered
<1>4. ASSUME UNCHANGED <<shell, wrote>>, sequence' \in {sequence, sequence + 1}
      PROVE  Numbered'
  <2>1. shell.seq \in Int /\ wrote \in Int /\ shell.seq < sequence /\ wrote < sequence
    BY <1>1 DEF Numbered
  <2>2. shell'.seq = shell.seq /\ wrote' = wrote
    BY <1>4
  <2> QED
    BY <1>1, <1>4, <2>1, <2>2 DEF Numbered
<1>5. ASSUME NEW t \in Calls, Exec(t) PROVE Numbered'
  BY <1>4, <1>5 DEF Exec, SendExec, NextSequence, guestVars
<1>6. ASSUME NEW t \in Threads, Caller(t) PROVE Numbered'
  <2>1. UNCHANGED <<shell, wrote>>
    BY <1>6 DEF Caller, FoundPrompt, FoundEnd, FoundIdle, Step, Again, Expire, Down, guestVars
  <2>2. sequence' \in {sequence, sequence + 1}
    BY <1>6 DEF Caller, FoundPrompt, FoundEnd, FoundIdle, Step, Again, Expire, Down, GiveUp,
                Return, End, SendExec, Recover, NextSequence
  <2> QED
    BY <1>4, <2>1, <2>2
<1>7. CASE UNCHANGED vars
  BY <1>4, <1>7 DEF vars, hostVars, guestVars
<1> QED
  BY <1>2, <1>3, <1>5, <1>6, <1>7 DEF Next

\* What SendExec does to the calls: the one it is for begins, alone or not, and
\* no other in progress is alone any more.
LEMMA SendCalls ==
    ASSUME IInv, NEW t \in Threads, NEW kind, SendExec(t, kind), NEW u \in Threads, Alone(u)'
    PROVE  /\ u = t /\ machine # "none" /\ call'[t].seq = sequence
           /\ \A v \in Threads \ {t} : ~Busy(v) /\ ~Busy(v)'
<1>1. \A v \in Threads \ {t} : call'[v] = [call[v] EXCEPT !.alone = @ /\ ~Busy(v)]
  BY DEF SendExec
<1>2. ASSUME NEW v \in Threads \ {t}
      PROVE  call'[v].pc = call[v].pc /\ (call'[v].alone => ~Busy(v))
  <2>1. call[v] \in CallSet
    BY DEF IInv, TypeOK
  <2>2. ASSUME NEW a \in BOOLEAN
        PROVE  LET n == [call[v] EXCEPT !.alone = a]
               IN  n.pc = call[v].pc /\ n.alone = a
    BY <2>1 DEF CallSet
  <2>3. (call[v].alone /\ ~Busy(v)) \in BOOLEAN
    BY Zenon
  <2>4. call'[v] = [call[v] EXCEPT !.alone = call[v].alone /\ ~Busy(v)]
    BY <1>1, Zenon
  <2>5. call'[v].pc = call[v].pc /\ call'[v].alone = (call[v].alone /\ ~Busy(v))
    BY <2>2, <2>3, <2>4, Zenon
  <2> QED
    BY <2>5, Zenon
<1>3. \A v \in Threads \ {t} : Busy(v)' <=> Busy(v)
  BY <1>2 DEF Busy
<1>4. u = t
  BY <1>2, <1>3 DEF Alone
<1>5. call'[t] = IF machine = "none" THEN EndedCall
                 ELSE CallAt("check", "exec", sequence, kind, \A v \in Threads \ {t} : ~Busy(v))
  BY DEF SendExec
<1>6. machine # "none"
  BY <1>4, <1>5 DEF Alone, Busy, EndedCall, CallAt
<1>7. call'[t].seq = sequence /\ call'[t].alone = (\A v \in Threads \ {t} : ~Busy(v))
  <2>1. ASSUME NEW a
        PROVE  /\ CallAt("check", "exec", sequence, kind, a).seq = sequence
               /\ CallAt("check", "exec", sequence, kind, a).alone = a
    BY DEF CallAt
  <2>2. call'[t] = CallAt("check", "exec", sequence, kind, \A v \in Threads \ {t} : ~Busy(v))
    BY <1>5, <1>6, Zenon
  <2> QED
    BY <2>1, <2>2, Zenon
<1>8. \A v \in Threads \ {t} : ~Busy(v)
  BY <1>4, <1>7, Zenon DEF Alone
<1> QED
  BY <1>3, <1>4, <1>6, <1>7, <1>8

\* A call that is alone from its beginning finds the guest idle.
LEMMA ExecServed ==
    ASSUME OInv, NEW u \in Calls, Exec(u), NEW t \in Calls, Alone(t)'
    PROVE  Undisturbed(t)'
<1>1. PICK kind \in Kinds : SendExec(u, kind)
  BY DEF Exec
<1>2. t \in Threads /\ u \in Threads /\ IInv /\ Numbered
  BY DEF Threads, OInv
<1>3. /\ t = u /\ machine # "none" /\ call'[t].seq = sequence
      /\ \A v \in Threads \ {t} : ~Busy(v) /\ ~Busy(v)'
  BY <1>1, <1>2, SendCalls
<1>4. /\ marker' = sequence /\ out' = <<>> /\ sequence \in Nat
      /\ input' = input \o <<Line("command", sequence, kind), EndLine(sequence)>>
      /\ booted /\ ~Busy(t) /\ UNCHANGED <<machine, shell, wrote>>
  BY <1>1, <1>2, <1>3 DEF Exec, SendExec, BeginWait, FeedInput, EndLine, Line, IInv, TypeOK, Busy,
                          guestVars
<1>5. machine = "off" => ShutDown'
  BY <1>4 DEF ShutDown
<1>6. machine = "on" => AllToRead(marker)'
  <2> SUFFICES ASSUME machine = "on" PROVE AllToRead(marker)'
    OBVIOUS
  <2>1. shell = NoLine /\ input = <<>>
    BY <1>2, <1>3, <1>4 DEF IInv, ReadyIsIdle
  <2>2. input' = <<Line("command", sequence, kind), EndLine(sequence)>>
    <3> DEFINE a == Line("command", sequence, kind)
               b == EndLine(sequence)
    <3> HIDE DEF a, b
    <3>1. <<>> \o <<a, b>> = <<a, b>>
      OBVIOUS
    <3> QED
      BY <1>4, <2>1, <3>1 DEF a, b
  <2>3. wrote # sequence
    BY <1>2, <1>4 DEF Numbered
  <2> QED
    BY <1>4, <2>1, <2>2, <2>3 DEF AllToRead, EndLine
<1>7. machine \in {"on", "off"}
  BY <1>2, <1>3 DEF IInv, TypeOK
<1> QED
  BY <1>3, <1>4, <1>5, <1>6, <1>7 DEF Undisturbed

\* Of the calls only the one that is alone goes on, and its place is all it changes.
LEMMA MovedKeeps ==
    ASSUME OInv, NEW t \in Calls, Busy(t), NEW pc \in {"check", "step"},
           call' = Moved(t, pc, call[t].stage),
           UNCHANGED <<machine, out, marker, input, shell, last, owed, jobs, wrote>>,
           NEW u \in Calls, Alone(u)'
    PROVE  Undisturbed(u)'
<1>1. /\ t \in Threads /\ u \in Threads /\ call \in [Threads -> CallSet]
      /\ call[t].stage \in {"boot", "exec", "recover"}
  BY DEF Threads, OInv, IInv, TypeOK, Stages
<1>2. /\ call'[t].pc = pc /\ call'[t].stage = call[t].stage
      /\ \A v \in Threads \ {t} : call'[v] = call[v]
  BY <1>1, MovedIs
<1>3. call'[t].seq = call[t].seq /\ call'[t].alone = call[t].alone
  <2>1. call'[t] = [call[t] EXCEPT !.pc = pc, !.stage = call[t].stage]
    BY <1>1 DEF Moved
  <2>2. call[t] \in CallSet
    BY <1>1
  <2> QED
    BY <2>1, <2>2 DEF CallSet
<1>4. \A v \in Threads : Busy(v)' <=> Busy(v)
  BY <1>2 DEF Busy
<1>5. Alone(u)
  BY <1>1, <1>2, <1>3, <1>4 DEF Alone
<1>6. Undisturbed(u) /\ call'[u].seq = call[u].seq
  BY <1>1, <1>2, <1>3, <1>5 DEF OInv
<1>7. \/ machine' = "none" \/ ShutDown'
      \/ AllToRead(marker)' \/ Runs(marker)' \/ HasRun(marker)' \/ HasPrinted(marker)'
  BY <1>6 DEF Undisturbed, ShutDown, AllToRead, Runs, HasRun, HasPrinted, EndLine
<1> QED
  BY <1>4, <1>6, <1>7 DEF Undisturbed

LEMMA CallerServed ==
    ASSUME OInv, NEW u \in Threads, Caller(u), NEW t \in Calls, Alone(t)'
    PROVE  Undisturbed(t)'
<1>1. Busy(u) /\ t \in Threads /\ IInv /\ "boot" \notin Calls
  BY CallsAssumption
     DEF Caller, FoundPrompt, FoundEnd, FoundIdle, Step, Again, Expire, Down, Busy, Threads, OInv
<1>2. ASSUME NEW kind, SendExec(u, kind), u = "boot" PROVE FALSE
  BY <1>1, <1>2, SendCalls
<1>3. ASSUME call' = Ended(u) PROVE FALSE
  <2>1. call'[u] = EndedCall /\ \A v \in Threads \ {u} : call'[v] = call[v]
    BY <1>1, <1>3 DEF Ended, IInv, TypeOK
  <2>2. ~Busy(u)'
    BY <2>1 DEF Busy, EndedCall, CallAt
  <2>3. t # u /\ Alone(t)
    BY <1>1, <2>1, <2>2 DEF Alone, Busy
  <2> QED
    BY <1>1, <2>3 DEF OInv, Undisturbed
<1>4. ASSUME NEW n, Return(u, n) PROVE FALSE
  BY <1>2, <1>3, <1>4 DEF Return, End, MountNext
<1>5. ASSUME NEW pc \in {"check", "step"}, NEW stage \in {"boot", "exec", "recover"},
             call' = Moved(u, pc, stage)
      PROVE  t = u /\ stage = "exec" /\ call[t].alone
  <2>1. /\ call' \in [Threads -> CallSet]
        /\ call'[u].pc = pc /\ call'[u].stage = stage
        /\ \A v \in Threads \ {u} : call'[v] = call[v]
    BY <1>1, <1>5, MovedIs DEF IInv, TypeOK
  <2>2. t # u => Alone(t)
    BY <1>1, <2>1 DEF Alone, Busy
  <2>3. t = u
    BY <1>1, <2>2 DEF OInv, Undisturbed
  <2>4. call'[u].alone = call[u].alone
    <3>1. call'[u] = [call[u] EXCEPT !.pc = pc, !.stage = stage] /\ call[u] \in CallSet
      BY <1>5 DEF Moved, OInv, IInv, TypeOK
    <3> QED
      BY <3>1 DEF CallSet
  <2> QED
    BY <2>1, <2>3, <2>4 DEF Alone
<1>6. ASSUME NEW pc \in {"check", "step"}, call' = Moved(u, pc, call[u].stage),
             UNCHANGED <<machine, out, marker, input, shell, last, owed, jobs, wrote>>
      PROVE  Undisturbed(t)'
  <2>1. t = u
    BY <1>1, <1>5, <1>6 DEF IInv, Stages
  <2> QED
    BY <1>1, <1>6, <2>1, MovedKeeps
<1>7. CASE FoundPrompt(u)
  <2>1. u = "boot" /\ SendExec(u, "stty")
    BY <1>1, <1>7 DEF FoundPrompt, IInv, Stages
  <2> QED
    BY <1>2, <2>1
<1>8. CASE FoundEnd(u) \/ FoundIdle(u) \/ Down(u)
  BY <1>3, <1>4, <1>8 DEF FoundEnd, FoundIdle, Down, GiveUp, End
<1>9. CASE Step(u)
  <2>1. CASE End(u, Len(out))
    BY <1>3, <2>1 DEF End
  <2>2. CASE call' = Moved(u, "step", call[u].stage) /\ UNCHANGED <<sequence, out, marker, input>>
    BY <1>6, <1>9, <2>2 DEF Step, guestVars
  <2> QED
    BY <1>9, <2>1, <2>2 DEF Step
<1>10. CASE Again(u)
  BY <1>6, <1>10 DEF Again, guestVars, consoleVars
<1>11. CASE Expire(u)
  <2>1. CASE End(u, scan)
    BY <1>3, <2>1 DEF End
  <2>2. CASE Recover(u)
    BY <1>5, <2>2 DEF Recover
  <2>3. CASE GiveUp(u)
    BY <1>4, <2>3 DEF GiveUp
  <2> QED
    BY <1>11, <2>1, <2>2, <2>3 DEF Expire
<1> QED
  BY <1>7, <1>8, <1>9, <1>10, <1>11 DEF Caller

\* A sandbox that has no machine serves nobody, and boot comes first.
LEMMA HostServed ==
    ASSUME OInv, Boot \/ Dispose, NEW t \in Calls, Alone(t)'
    PROVE  Undisturbed(t)'
<1>1. t \in Threads /\ IInv /\ t # "boot"
  BY CallsAssumption DEF Threads, OInv
<1>2. CASE Boot
  <2>1. \A v \in Threads : ~Busy(v)
    BY <1>1, <1>2 DEF Boot, IInv, BootFirst
  <2>2. call'[t] = call[t]
    BY <1>1, <1>2 DEF Boot, Moved, IInv, TypeOK
  <2> QED
    BY <1>1, <2>1, <2>2 DEF Alone, Busy
<1>3. CASE Dispose
  <2>1. machine' = "none" /\ call' = call /\ marker' = marker
    BY <1>3 DEF Dispose, consoleVars
  <2>2. Undisturbed(t) /\ \A v \in Threads : Busy(v)' <=> Busy(v)
    BY <2>1 DEF OInv, Alone, Busy
  <2> QED
    BY <2>1, <2>2 DEF Undisturbed
<1> QED
  BY <1>2, <1>3

\* Every step of the guest writes nothing, or something that LateIsLeft allows.
LEMMA GuestAdds ==
    ASSUME IInv, Guest
    PROVE  \/ out' = out
           \/ \E r \in Seq(TokenSet) :
                /\ out' = out \o r
                /\ \A j \in DOMAIN r : r[j].what = "late" => r[j].seq \in jobs
<1>1. out \in Seq(TokenSet) /\ input \in Seq(LineSet) /\ {shell.seq, owed, Torn, Null} \subseteq Int
  BY DEF IInv, TypeOK, Torn, Null
<1>2. ASSUME NEW x \in TokenSet, x.what = "late" => x.seq \in jobs, out' = out \o <<x>>
      PROVE  \E r \in Seq(TokenSet) :
               /\ out' = out \o r
               /\ \A j \in DOMAIN r : r[j].what = "late" => r[j].seq \in jobs
  <2>1. <<x>> \in Seq(TokenSet) /\ \A j \in DOMAIN <<x>> : <<x>>[j] = x
    OBVIOUS
  <2> QED
    BY <1>2, <2>1
<1>3. ASSUME NEW n \in Int, NEW w \in {"prompt", "status", "text"}
      PROVE  Token(w, n) \in TokenSet /\ Token(w, n).what # "late"
  BY Tokens
<1>4. CASE Prompted
  BY <1>1, <1>2, <1>3, <1>4 DEF Prompted, Write
<1>5. CASE ShellReads
  <2> DEFINE line == Head(input)
             what == IF line.what = "command" THEN "begin" ELSE "end"
  <2>1. line.seq \in Int /\ what \in {"begin", "end"}
    <3>1. input # <<>>
      BY <1>5 DEF ShellReads
    <3>2. Head(input) \in LineSet
      BY <1>1, <3>1
    <3> QED
      BY <3>2 DEF LineSet
  <2>2. PICK r \in Pieces(line.seq, what) : out' = out \o r
    BY <1>5, ReadPrints
  <2> HIDE DEF line, what
  <2>3. /\ r \in Seq(TokenSet) /\ Len(r) \in {1, 2} /\ r[Len(r)] = Token(what, line.seq)
        /\ \A k \in 1 .. Len(r) - 1 : IsNoise(r[k])
    BY <2>1, <2>2, PieceIs
  <2>4. \A j \in DOMAIN r : r[j].what # "late"
    <3>1. Token(what, line.seq).what # "late" /\ Token("echo", Null).what # "late"
      BY <2>1, Tokens
    <3>2. CASE r = <<Token(what, line.seq)>>
      BY <3>1, <3>2
    <3>3. CASE r = <<Token("echo", Null), Token(what, line.seq)>>
      BY <3>1, <3>3
    <3> QED
      BY <2>2, <3>2, <3>3 DEF Pieces
  <2> QED
    BY <2>2, <2>3, <2>4
<1>6. CASE StatusFollows
  BY <1>1, <1>2, <1>3, <1>6 DEF StatusFollows, Write
<1>7. CASE CommandWrites
  BY <1>1, <1>2, <1>3, <1>7 DEF CommandWrites, Write
<1>8. CASE BackgroundWrites
  <2>1. PICK n \in jobs : /\ Token("late", n) \in TokenSet /\ out' = out \o <<Token("late", n)>>
    BY <1>8, LateIsNoise
  <2>2. Token("late", n).seq = n
    BY DEF Token
  <2> QED
    BY <1>2, <2>1, <2>2
<1>9. CASE Interrupt \/ CommandEnds \/ ShutsDown \/ LeaveBehind
  BY <1>9 DEF Interrupt, CommandEnds, ShutsDown, LeaveBehind, consoleVars
<1> QED
  BY <1>4, <1>5, <1>6, <1>7, <1>8, <1>9 DEF Guest

LEMMA LateKeeps == ASSUME OInv, [Next]_vars PROVE LateIsLeft'
<1>1. IInv /\ out \in Seq(TokenSet)
  BY DEF OInv, IInv, TypeOK
<1>2. CASE Guest
  <2>1. machine = "on" /\ jobs \subseteq jobs'
    BY <1>2 DEF Guest, Prompted, ShellReads, Interrupt, StatusFollows, CommandWrites,
                CommandEnds, ShutsDown, LeaveBehind, BackgroundWrites, guestVars, Stepped
  <2>2. \A i \in DOMAIN out : out[i].what = "late" => out[i].seq \in jobs
    BY <2>1 DEF OInv, LateIsLeft
  <2>3. \A i \in DOMAIN out' : out'[i].what = "late" => out'[i].seq \in jobs
    <3>1. CASE out' = out
      BY <2>2, <3>1
    <3>2. CASE out' # out
      <4>1. PICK r \in Seq(TokenSet) :
              /\ out' = out \o r
              /\ \A j \in DOMAIN r : r[j].what = "late" => r[j].seq \in jobs
        BY <1>1, <1>2, <3>2, GuestAdds
      <4>2. /\ Len(out) \in Nat /\ Len(r) \in Nat
            /\ DOMAIN out = 1 .. Len(out) /\ DOMAIN r = 1 .. Len(r)
            /\ DOMAIN out' = 1 .. Len(out) + Len(r)
            /\ \A i \in 1 .. Len(out) : out'[i] = out[i]
            /\ \A i \in Len(out) + 1 .. Len(out) + Len(r) : out'[i] = r[i - Len(out)]
        BY <1>1, <4>1, Joined
      <4>3. ASSUME NEW i \in DOMAIN out'
            PROVE  i \in 1 .. Len(out) \/ (/\ i \in Len(out) + 1 .. Len(out) + Len(r)
                                           /\ i - Len(out) \in 1 .. Len(r))
        BY <4>2
      <4> QED
        BY <2>2, <4>1, <4>2, <4>3
    <3> QED
      BY <3>1, <3>2
  <2> QED
    BY <2>1, <2>3 DEF LateIsLeft
<1>3. ASSUME out' = <<>> PROVE LateIsLeft'
  BY <1>3 DEF LateIsLeft
<1>4. ASSUME out' \in {out, <<>>}, UNCHANGED <<machine, jobs>> PROVE LateIsLeft'
  BY <1>3, <1>4 DEF OInv, LateIsLeft
<1>5. CASE Boot
  BY <1>3, <1>5 DEF Boot, BeginWait
<1>6. CASE Dispose
  BY <1>6 DEF Dispose, LateIsLeft
<1>7. ASSUME NEW t \in Calls, Exec(t) PROVE LateIsLeft'
  BY <1>3, <1>7 DEF Exec, SendExec, BeginWait
<1>8. ASSUME NEW t \in Threads, Caller(t) PROVE LateIsLeft'
  <2>1. UNCHANGED <<machine, jobs>>
    BY <1>8 DEF Caller, FoundPrompt, FoundEnd, FoundIdle, Step, Again, Expire, Down, guestVars
  <2>2. out' \in {out, <<>>}
    BY <1>8 DEF Caller, FoundPrompt, FoundEnd, FoundIdle, Step, Again, Expire, Down, GiveUp,
                Return, End, SendExec, Recover, BeginWait, consoleVars
  <2> QED
    BY <1>4, <2>1, <2>2
<1>9. CASE UNCHANGED vars
  BY <1>4, <1>9 DEF vars, hostVars, consoleVars, guestVars
<1> QED
  BY <1>2, <1>5, <1>6, <1>7, <1>8, <1>9 DEF Next

\* A call that no other overlaps returns, once, what its own command wrote and, as
\* far as it could be read, its own status, whatever calls before it were stopped and
\* wherever the guest's output is cut by a look.  Anything else in what it returns is
\* an echo, or comes from a process that its command, or one before it, has left in
\* the background.
THEOREM SandboxOwnOutput == Spec => []OwnOutput
<1>1. Init => OInv
  <2> SUFFICES ASSUME Init PROVE OInv
    OBVIOUS
  <2>1. IInv
    BY InitHolds
  <2>2. Numbered
    BY DEF Init, Numbered, NoLine, Null
  <2>3. \A t \in Calls : ~Alone(t)
    BY CallsAssumption DEF Init, Alone, Busy, Threads, NewCall, CallAt
  <2>4. LateIsLeft
    BY DEF Init, LateIsLeft
  <2> QED
    BY <2>1, <2>2, <2>3, <2>4 DEF OInv
<1>2. OInv /\ [Next]_vars => OInv'
  <2> SUFFICES ASSUME OInv, [Next]_vars PROVE OInv'
    OBVIOUS
  <2>1. IInv' /\ Numbered' /\ LateIsLeft'
    BY StepKeeps, NumberedKeeps, LateKeeps DEF OInv
  <2>2. ASSUME NEW t \in Calls, Alone(t)' PROVE Undisturbed(t)'
    <3>1. CASE UNCHANGED vars
      <4>1. /\ UNCHANGED <<machine, call, out, marker, input, shell, last, owed, jobs, wrote>>
            /\ \A v \in Threads : Busy(v)' <=> Busy(v)
        BY <3>1 DEF vars, hostVars, consoleVars, guestVars, Busy
      <4>2. Undisturbed(t)
        BY <2>2, <4>1 DEF OInv, Alone, Busy
      <4> QED
        BY <4>1, <4>2 DEF Undisturbed, ShutDown, AllToRead, Runs, HasRun, HasPrinted, EndLine
    <3>2. CASE Next
      BY <2>2, <3>2, GuestServes, ExecServed, CallerServed, HostServed DEF Next
    <3> QED
      BY <3>1, <3>2
  <2> QED
    BY <2>1, <2>2 DEF OInv
<1>3. OInv => OwnOutput
  BY OwnIsReturned
<1> QED
  BY <1>1, <1>2, <1>3, PTL DEF Spec
=============================================================================
