------------------------------- MODULE MCAgent -------------------------------
(* A small instance of Agent: replies with up to two calls, of which one is *)
(* a command and the others are misunderstood, and every kind of refusal.   *)
EXTENDS Agent

Call(id, name, args) == [id |-> id, name |-> name, args |-> args]
Run1 == Call("1", "shell", "command")
Run2 == Call("2", "shell", "command")
Bad1 == Call("1", "none", "command")

Reply(framed, ok, kind, cs) ==
    [framed |-> framed, ok |-> ok, kind |-> kind, calls |-> cs]

MCReplies ==
    {Reply(TRUE, TRUE, "message", cs) : cs \in {<<>>, <<Run1>>, <<Run1, Run2>>, <<Bad1, Run2>>}}
    \cup {Reply(TRUE, FALSE, "message", <<Run2>>), Reply(TRUE, FALSE, "error", <<>>),
          Reply(TRUE, TRUE, "nothing", <<>>), Reply(FALSE, TRUE, "junk", <<>>)}
=============================================================================
