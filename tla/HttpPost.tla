------------------------------ MODULE HttpPost ------------------------------
(***************************************************************************)
(* One POST of the guest agent (agentos/src/http.c) and the host's proxy   *)
(* at the other end, which may answer before it has the whole request,     *)
(* close at any moment, and answer with anything.                          *)
(*                                                                         *)
(* A request is RequestParts parts, each appended to the buffer by itself: *)
(* lines of its head, Content-Length the last but one of them, the line    *)
(* with the blank line behind it the last, and its body.  A reply is       *)
(* ReplyPieces pieces, the first its status line, the second the rest of   *)
(* its head with the blank line, the others its body.  The agent does not  *)
(* look at the reply's Content-Length: it ends with the connection.        *)
(***************************************************************************)
EXTENDS Integers, Sequences, FiniteSets

CONSTANTS RequestParts, ReplyPieces,
          Replies,      \* what the host may answer: records with a field framed
          MaxRefused    \* bound: allocations refused

ASSUME HttpAssumption ==
    /\ RequestParts \in Nat /\ RequestParts >= 3
    /\ ReplyPieces \in Nat /\ ReplyPieces >= 3
    /\ \A r \in Replies : r.framed \in BOOLEAN
    /\ MaxRefused \in Nat

ContentLength == RequestParts - 2
BlankLine == RequestParts - 1
Body == RequestParts

VARIABLES
    http,      \* "idle", "send", "receive", "failed" or "stored"
    lacks,     \* parts of the request there was no memory for
    sent,      \* parts written
    open,      \* the host's end of the connection
    reply,     \* what the host answers, in a set once it does
    came,      \* pieces of it read
    refused    \* allocations refused so far

linkVars == <<lacks, sent, open, reply, came>>
httpVars == <<http, linkVars, refused>>

HttpTypeOK ==
    /\ http \in {"idle", "send", "receive", "failed", "stored"}
    /\ lacks \subseteq 1 .. RequestParts
    /\ sent \in 0 .. RequestParts
    /\ open \in BOOLEAN
    /\ reply \subseteq Replies /\ \A r, s \in reply : r = s
    /\ came \in 0 .. ReplyPieces
    /\ refused \in Nat

HttpInit ==
    /\ http = "idle"
    /\ lacks = {}
    /\ sent = 0
    /\ open = FALSE
    /\ reply = {}
    /\ came = 0
    /\ refused = 0

\* An allocation the caller has asked for is refused.
Refuse == refused < MaxRefused /\ refused' = refused + 1
Granted == refused' = refused

-----------------------------------------------------------------------------
(* The agent's end.                                                        *)

\* A bad gateway, no socket, or a host that does not accept.
CannotConnect ==
    /\ http' = "failed"
    /\ lacks' = {} /\ sent' = 0 /\ open' = FALSE /\ reply' = {} /\ came' = 0
    /\ Granted

\* The request is put together in a buffer whose refusals nobody looks at: the
\* parts that find no memory are left out, and what is left is sent.
Connected ==
    /\ http' = "send"
    /\ sent' = 0 /\ open' = TRUE /\ reply' = {} /\ came' = 0
    /\ lacks' \in SUBSET (1 .. RequestParts)
    /\ refused' = refused + Cardinality(lacks')
    /\ lacks' # {} => refused' <= MaxRefused

\* write may take any share of what is left; a signal only repeats it.
Write ==
    /\ http = "send"
    /\ \E n \in sent + 1 .. RequestParts :
         /\ sent' = n
         /\ http' = IF n = RequestParts THEN "receive" ELSE "send"
    /\ UNCHANGED <<lacks, open, reply, came, refused>>

WriteFails ==
    /\ http = "send"
    /\ ~open
    /\ http' = "failed"
    /\ UNCHANGED <<linkVars, refused>>

\* read returns some of what the host has sent; with no memory for it the
\* call fails.
Read ==
    /\ http = "receive"
    /\ reply # {}
    /\ \E n \in came + 1 .. ReplyPieces : came' = n
    /\ \/ http' = http /\ Granted
       \/ http' = "failed" /\ Refuse
    /\ UNCHANGED <<lacks, sent, open, reply>>

\* http_split_response finds a status line and a blank line.
Splits(r, n) == r.framed /\ n >= 2

\* read has returned zero or an error, which are one to the code; a body that
\* finds no memory is a failed call.
EndOfReply ==
    /\ http = "receive"
    /\ ~open
    /\ \/ /\ http' = IF \E r \in reply : Splits(r, came) THEN "stored" ELSE "failed"
          /\ Granted
       \/ /\ \E r \in reply : Splits(r, came)
          /\ http' = "failed"
          /\ Refuse
    /\ UNCHANGED linkVars

-----------------------------------------------------------------------------
(* The host's end.                                                         *)

HostAnswers ==
    /\ http \in {"send", "receive"}
    /\ open
    /\ reply = {}
    /\ \E r \in Replies : reply' = {r}
    /\ UNCHANGED <<http, lacks, sent, open, came, refused>>

\* After its reply, in the middle of it, or with none.
HostCloses ==
    /\ http \in {"send", "receive"}
    /\ open
    /\ open' = FALSE
    /\ UNCHANGED <<http, lacks, sent, reply, came, refused>>

\* The host takes what it is sent for a request when it has found the blank line
\* and as many bytes behind it as Content-Length says, none without that line.
Complete ==
    /\ http = "receive"
    /\ BlankLine \notin lacks
    /\ Body \in lacks => ContentLength \in lacks

\* It waits for what there was no memory for, and the agent for its reply.
Starved == http = "receive" /\ open /\ ~Complete

HttpNext == Write \/ WriteFails \/ Read \/ EndOfReply \/ HostAnswers \/ HostCloses
=============================================================================
