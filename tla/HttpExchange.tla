----------------------------- MODULE HttpExchange -----------------------------
(***************************************************************************)
(* One HTTP exchange through ArmorMiddleware._handle_http: the screens and *)
(* the size cap before anything is parsed, the one reading of the JSON the *)
(* guard works on, what is forwarded, the buffered answer of the wrapped   *)
(* app, its reading, the filter of tool lists, and what is sent.  For a    *)
(* sidecar the wrapped app is ForwardingApp._http, the hop to an upstream. *)
(*                                                                         *)
(* A document is what its readers can differ on: the members of one object *)
(* of it, as they are written, and the level at which the object stands.   *)
(* A member's name is a protocol field of that level ("field") or another  *)
(* ("free"), in its own spelling or in one that is equal to it only under  *)
(* case folding.  The guard's verdicts are the caller's.                   *)
(***************************************************************************)
EXTENDS Naturals, Sequences, SequencesExt

CONSTANTS
    MaxBody,     \* max_body_bytes
    MaxResponse  \* max_response_bytes

ASSUME CapsAssumption == MaxBody \in Nat /\ MaxResponse \in Nat

VARIABLES
    in,      \* the exchange: the request and what the wrapped app will do
    xpc,     \* where _handle_http is
    taken,   \* chunks of the request that have been received
    accumulated, \* and their size
    pending, \* what the wrapped app has still to send
    reply,   \* whether it then raises, and the body its chunks make up
    start,   \* response_start_msg
    size,    \* response_bytes
    out,     \* what has been sent to the client
    hop      \* the headers ForwardingApp has sent upstream

exchangeVars == <<in, xpc, taken, accumulated, pending, reply, start, size, out, hop>>

(* What the documents and the headers of an exchange are made of.           *)
Member == [name : {"field", "free"}, spelling : {"exact", "variant"}, value : STRING]
Tool == [object : BOOLEAN, members : Seq(Member)]
Header == [name : STRING, crlf : BOOLEAN, value : STRING]
IsDocument(doc) == doc.members \in Seq(Member) /\ doc.tools \in Seq(Tool)
IsExchange(x) ==
    IsDocument(x.body) /\ IsDocument(x.answer.body) /\ x.headers \in Seq(Header)

Object(level, members, tools) ==
    [kind |-> "object", level |-> level, members |-> members, tools |-> tools]
NoReply == [raises |-> FALSE, body |-> Object("nested", <<>>, <<>>)]
NoStart == [session |-> "none", length |-> "none", present |-> FALSE]

ExchangeInit ==
    /\ xpc = "waiting"
    /\ taken = 0 /\ accumulated = 0 /\ pending = <<>> /\ reply = NoReply /\ start = NoStart /\ size = 0
    /\ out = <<>> /\ hop = <<>>
-----------------------------------------------------------------------------
(* A document's readings.  _strict_json_loads and the envelope checks pass  *)
(* only documents that every reader reads alike where it matters: at the    *)
(* levels of a request, or of a response, where protocol fields stand.  The *)
(* mutants leave out a check.                                               *)
FoldChecked == [request |-> {"envelope", "params", "_meta", "arguments"},
                response |-> {"envelope", "result", "error"}]
FieldChecked == [request |-> {"envelope", "params", "_meta"},
                 response |-> {"envelope", "result", "error", "element"}]

Same(m, n) == m.name = n.name /\ m.spelling = n.spelling
Duplicates(ms) == \E i, j \in DOMAIN ms : i # j /\ Same(ms[i], ms[j])
Collides(ms) == \E i, j \in DOMAIN ms : i # j /\ ms[i].name = ms[j].name
Variant(ms) == \E i \in DOMAIN ms : ms[i].name = "field" /\ ms[i].spelling = "variant"
NonFinite(ms) == \E i \in DOMAIN ms : ms[i].value = "NaN"

StrictWithDuplicates(doc, side) ==
    /\ ~NonFinite(doc.members)
    /\ doc.level \in FieldChecked[side] => ~Variant(doc.members)
StrictWithVariants(doc, side) ==
    /\ ~NonFinite(doc.members) /\ ~Duplicates(doc.members)
    /\ doc.level \in FoldChecked[side] => ~Collides(doc.members)
Strict(doc, side) ==
    /\ ~NonFinite(doc.members)
    /\ ~Duplicates(doc.members)
    /\ doc.level \in FoldChecked[side] => ~Collides(doc.members)
    /\ doc.level \in FieldChecked[side] => ~Variant(doc.members)

(* A tool list is checked element by element.                               *)
Elements(body) == {Object("element", tool.members, <<>>) : tool \in ToSet(body.tools)}
ReadAlike(body, side) ==
    Strict(body, side) /\ \A element \in Elements(body) : Strict(element, side)

Hits(ms, name, fold) ==
    {i \in DOMAIN ms : ms[i].name = name /\ (fold \/ ms[i].spelling = "exact")}
FirstRead(ms, name, fold) ==
    LET hits == Hits(ms, name, fold)
    IN  IF hits = {} THEN "absent" ELSE ms[Min(hits)].value
LastRead(ms, name, fold) ==
    LET hits == Hits(ms, name, fold)
    IN  IF hits = {} THEN "absent" ELSE ms[Max(hits)].value
-----------------------------------------------------------------------------
(* A client that disconnects ends its body: what came before is cut off.    *)
RawBody ==
    IF accumulated = 0 THEN "empty"
    ELSE IF in.ending = "disconnect" THEN "malformed" ELSE in.body.kind

(* _send_error and _send_rate_limited: a complete answer of armor's own.    *)
SendError ==
    out' = out \o <<[type |-> "start", session |-> "none", length |-> "right"],
                    [type |-> "body", shows |-> "error", tools |-> <<>>]>>

Refuse ==
    /\ SendError
    /\ xpc' = "done"
    /\ UNCHANGED <<in, taken, accumulated, pending, reply, start, size, hop>>

Screened == in.origin # "foreign" /\ in.encoding = "identity"

Screen ==
    /\ xpc = "waiting" /\ Screened
    /\ xpc' = "buffer"
    /\ UNCHANGED <<in, taken, accumulated, pending, reply, start, size, out, hop>>

ScreenedOut == xpc = "waiting" /\ ~Screened /\ Refuse

(* The cap is applied before a chunk is kept.  The mutant parses first.     *)
FitsLater(n) == TRUE
Fits(n) == n <= MaxBody

Receive ==
    /\ xpc = "buffer" /\ taken < Len(in.chunks)
    /\ Fits(accumulated + in.chunks[taken + 1])
    /\ taken' = taken + 1
    /\ accumulated' = accumulated + in.chunks[taken + 1]
    /\ UNCHANGED <<in, xpc, pending, reply, start, size, out, hop>>

ReceiveTooMuch ==
    /\ xpc = "buffer" /\ taken < Len(in.chunks)
    /\ ~Fits(accumulated + in.chunks[taken + 1])
    /\ Refuse

Complete == xpc = "buffer" /\ taken = Len(in.chunks)

Readable ==
    /\ RawBody # "empty" => in.ctype \in {"json", "absent"}
    /\ RawBody = "object" => ReadAlike(in.body, "request")
    /\ RawBody \in {"object", "empty"}

(* An empty body is read as {}: it has no method.                           *)
Method == IF RawBody = "empty" THEN "" ELSE in.method

(* How the session is resolved; "none" is an error.                         *)
SessionMode ==
    IF Method = "initialize" THEN "initialize"
    ELSE IF in.header THEN "resume"
    ELSE IF in.stateless /\ RawBody # "empty" THEN "stateless"
    ELSE "none"

Unreadable == Complete /\ (~Readable \/ SessionMode = "none") /\ Refuse

Resolve ==
    /\ Complete /\ Readable /\ SessionMode # "none"
    /\ xpc' = "guard"
    /\ UNCHANGED <<in, taken, accumulated, pending, reply, start, size, out, hop>>
-----------------------------------------------------------------------------
(* A loop that appends the elements that may follow what it has kept.       *)
Loop(s, MayFollow(_, _)) ==
    LET kept[i \in 0..Len(s)] ==
            IF i = 0 THEN <<>>
            ELSE IF MayFollow(kept[i - 1], s[i]) THEN Append(kept[i - 1], s[i])
            ELSE kept[i - 1]
    IN  kept[Len(s)]

(* ForwardingApp: what the upstream is sent of the client's headers.  The   *)
(* mutant does not drop repeated names.                                     *)
HopByHop == {"connection", "transfer-encoding"}
OwnedByArmor ==
    {"host", "content-type", "content-length", "x-forwarded-for", "x-real-ip", "mcp-session-id"}
MayPass(h) == h.name \notin HopByHop \cup OwnedByArmor /\ ~h.crlf
NotYetIn(kept, h) == \A i \in DOMAIN kept : kept[i].name # h.name
ByArmor == <<[name |-> "x-forwarded-for", crlf |-> FALSE, value |-> "peer"],
             [name |-> "x-real-ip", crlf |-> FALSE, value |-> "peer"],
             [name |-> "content-type", crlf |-> FALSE, value |-> "json"]>>
ForwardedAll(headers) ==
    LET MayFollow(kept, h) == MayPass(h)
    IN  Loop(headers, MayFollow) \o ByArmor
Forwarded(headers) ==
    LET MayFollow(kept, h) == MayPass(h) /\ NotYetIn(kept, h)
    IN  Loop(headers, MayFollow) \o ByArmor

(* What ForwardingApp refuses by itself, before the hop.                    *)
Routable == in.route = "ok" /\ RawBody # "empty"

AnswerOf(n) == <<[type |-> "start", session |-> FALSE, length |-> "right"],
                 [type |-> "body", size |-> n]>>

Sum(sizes) == FoldLeft(LAMBDA a, b : a + b, 0, sizes)

(* The hop: an answer of its own (refused, unreachable, too large), or the  *)
(* upstream's, without its session header and framed anew.  Otherwise the   *)
(* wrapped app does what it will.                                           *)
HopSucceeds == Routable /\ in.upstream = "answers" /\ Sum(in.answer.chunks) <= MaxResponse

ToSidecar ==
    /\ pending' = IF HopSucceeds THEN AnswerOf(Sum(in.answer.chunks)) ELSE AnswerOf(1)
    /\ reply' = [raises |-> FALSE,
                 body |-> IF HopSucceeds THEN in.answer.body ELSE Object("error", <<>>, <<>>)]
    /\ hop' = IF Routable THEN Forwarded(in.headers) ELSE <<>>

ToApp ==
    /\ pending' = in.answer.starts \o
           [i \in DOMAIN in.answer.chunks |-> [type |-> "body", size |-> in.answer.chunks[i]]]
    /\ reply' = [raises |-> in.answer.raises, body |-> in.answer.body]
    /\ UNCHANGED hop

Forward(sidecar) ==
    /\ xpc = "guard"
    /\ xpc' = "app"
    /\ IF sidecar THEN ToSidecar ELSE ToApp
    /\ UNCHANGED <<in, taken, accumulated, start, size, out>>
-----------------------------------------------------------------------------
(* buffering_send.  The session header is armor's, on initialize only.  The *)
(* mutant passes the app's own.                                             *)
StampApps(m) == IF m.session THEN "app's" ELSE "none"
Stamp(m) == IF Method = "initialize" THEN "armor's" ELSE "none"

AppSendsStart ==
    /\ xpc = "app" /\ pending # <<>> /\ Head(pending).type = "start"
    /\ start' = [session |-> Stamp(Head(pending)), length |-> Head(pending).length,
                 present |-> TRUE]
    /\ pending' = Tail(pending)
    /\ UNCHANGED <<in, xpc, taken, accumulated, reply, size, out, hop>>

(* Past the cap the chunks are dropped; size stays beyond it.               *)
AppSendsBody ==
    /\ xpc = "app" /\ pending # <<>> /\ Head(pending).type = "body"
    /\ size' = IF size > MaxResponse THEN size ELSE size + Head(pending).size
    /\ pending' = Tail(pending)
    /\ UNCHANGED <<in, xpc, taken, accumulated, reply, start, out, hop>>

AppDone == xpc = "app" /\ pending = <<>>

RawAnswer == IF size = 0 THEN "empty" ELSE reply.body.kind

(* The answer has to be read by the guard as by its client: a scanner looks *)
(* at it, or it is a tool list to filter.  The mutant fails open.           *)
Inspected == in.scans \/ Method = "tools/list"
InspectableAnyway == TRUE
Inspectable ==
    Inspected =>
        RawAnswer = "empty" \/ (RawAnswer = "object" /\ ReadAlike(reply.body, "response"))

Collectable == ~reply.raises /\ size <= MaxResponse /\ Inspectable

Collect ==
    /\ AppDone /\ Collectable
    /\ xpc' = "respond"
    /\ UNCHANGED <<in, taken, accumulated, pending, reply, start, size, out, hop>>

Uncollectable == AppDone /\ ~Collectable /\ Refuse

(* The filter of tool lists, by the names the guard reads; what is no object*)
(* goes with the hidden ones.  It keeps names in dicts and sets: a name that*)
(* is a JSON array or object, "unhashable", makes it raise.  The mutants    *)
(* leave the list, and its length, as they were.                            *)
Shown(tool) == tool.object /\ LastRead(tool.members, "field", FALSE) = "visible"
FilteredNot(tools) == tools
Filtered(tools) ==
    LET MayFollow(kept, tool) == Shown(tool)
    IN  Loop(tools, MayFollow)

Unlistable(tools) ==
    \E i \in DOMAIN tools :
        tools[i].object /\ LastRead(tools[i].members, "field", FALSE) = "unhashable"

Lists == Method = "tools/list" /\ RawAnswer = "object"
Breaks == Lists /\ Unlistable(reply.body.tools)
Shrinks == Lists /\ Len(Filtered(reply.body.tools)) # Len(reply.body.tools)

LengthStale(length) == IF Shrinks /\ length = "right" THEN "wrong" ELSE length
Length(length) == IF Shrinks THEN "right" ELSE length

Answered ==
    (IF start.present
     THEN <<[type |-> "start", session |-> start.session, length |-> Length(start.length)]>>
     ELSE <<>>)
    \o <<[type |-> "body", shows |-> IF Shrinks THEN "filtered" ELSE "answer",
          tools |-> IF Lists THEN Filtered(reply.body.tools) ELSE <<>>]>>

Answer ==
    /\ xpc = "respond" /\ ~Breaks
    /\ out' = out \o Answered
    /\ xpc' = "done"
    /\ UNCHANGED <<in, taken, accumulated, pending, reply, start, size, hop>>

(* Nothing catches what the filter raises: armor sends no answer, and what  *)
(* the client gets is up to the ASGI server.  The mutant answers all the    *)
(* same, with what the guard reads as visible.                              *)
BreakOpen ==
    /\ xpc = "respond" /\ Breaks
    /\ out' = out \o Answered
    /\ xpc' = "done"
    /\ UNCHANGED <<in, taken, accumulated, pending, reply, start, size, hop>>
BreakOff ==
    /\ xpc = "respond" /\ Breaks
    /\ xpc' = "done"
    /\ UNCHANGED <<in, taken, accumulated, pending, reply, start, size, out, hop>>
=============================================================================
