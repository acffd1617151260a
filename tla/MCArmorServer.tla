----------------------------- MODULE MCArmorServer -----------------------------
(***************************************************************************)
(* Small instances of ArmorServer: the exchanges come in families, each of *)
(* which varies one side of the exchange and keeps the others plain.       *)
(***************************************************************************)
EXTENDS ArmorServer, TLC

CONSTANTS s1, s2, s3, t1, t2

Members == [name : {"field", "free"}, spelling : {"exact", "variant"}, value : {"v1", "v2", "NaN"}]
UpTo(n, S) == UNION {[1..k -> S] : k \in 0..n}
PlainStart == [type |-> "start", session |-> FALSE, length |-> "right"]
Empty(kind) == [kind |-> kind, level |-> "nested", members |-> <<>>, tools |-> <<>>]
PlainBody == Object("params", <<[name |-> "field", spelling |-> "exact", value |-> "v1"]>>, <<>>)
PlainAnswer == [starts |-> <<PlainStart>>, chunks |-> <<1>>, raises |-> FALSE, body |-> PlainBody]
Plain == [method |-> "tools/call", origin |-> "none", encoding |-> "identity", ctype |-> "json",
          chunks |-> <<1>>, ending |-> "last", body |-> PlainBody, header |-> TRUE,
          stateless |-> FALSE, scans |-> FALSE, route |-> "ok", upstream |-> "answers",
          headers |-> <<>>, answer |-> PlainAnswer]

MCMethods == {"initialize", "tools/list", "tools/call"}

(* What a request's head and framing can be.                                *)
Heads ==
    {[Plain EXCEPT !.method = m, !.origin = o, !.encoding = e, !.ctype = c, !.header = h,
                   !.stateless = st] :
        m \in MCMethods, o \in {"none", "allowed", "foreign"}, e \in {"identity", "gzip"},
        c \in {"json", "absent", "other"}, h \in BOOLEAN, st \in BOOLEAN}
Framings ==
    {[Plain EXCEPT !.chunks = cs, !.ending = e, !.stateless = st, !.header = ~st, !.body = b] :
        cs \in UpTo(2, 0..2) \ {<<>>}, e \in {"last", "disconnect"}, st \in BOOLEAN,
        b \in {PlainBody, Empty("scalar"), Empty("malformed")}}

(* Every object of up to two members, at each level of a request ...        *)
Requests ==
    {[Plain EXCEPT !.body = Object(level, ms, <<>>)] :
        level \in {"envelope", "params", "_meta", "arguments", "nested"}, ms \in UpTo(2, Members)}

(* ... and of an answer.                                                    *)
Answers ==
    {[Plain EXCEPT !.scans = sc, !.answer = [PlainAnswer EXCEPT !.body = Object(level, ms, <<>>)]] :
        level \in {"envelope", "result", "error", "nested"}, ms \in UpTo(2, Members),
        sc \in BOOLEAN}

(* Tool lists of two, the first of which may be anything.                   *)
ToolMembers == [name : {"field", "free"}, spelling : {"exact", "variant"},
                value : {"visible", "hidden", "unhashable"}]
NamedTool(v) == [object |-> TRUE, members |-> <<[name |-> "field", spelling |-> "exact", value |-> v]>>]
NoTool == [object |-> FALSE, members |-> <<>>]
ToolLists ==
    {[Plain EXCEPT !.method = "tools/list",
                   !.answer = [starts |-> st, chunks |-> <<1>>, raises |-> FALSE,
                               body |-> Object("result", <<>>, <<first, second>>)]] :
        first \in {NoTool} \cup {[object |-> TRUE, members |-> ms] : ms \in UpTo(2, ToolMembers)},
        second \in {NoTool, NamedTool("visible"), NamedTool("hidden")},
        st \in {<<>>, <<PlainStart>>, <<[PlainStart EXCEPT !.length = "none"]>>,
                <<[PlainStart EXCEPT !.length = "wrong"]>>}}

(* How the wrapped app may frame its answer.                                *)
Starts == [type : {"start"}, session : BOOLEAN, length : {"right", "none"}]
AppFramings ==
    {[Plain EXCEPT !.method = m, !.scans = sc,
                   !.answer = [starts |-> ss, chunks |-> cs, raises |-> r, body |-> b]] :
        m \in MCMethods, sc \in BOOLEAN, ss \in UpTo(2, Starts), cs \in UpTo(2, {0, 1, 2}),
        r \in BOOLEAN, b \in {PlainBody, Empty("malformed")}}

(* What a sidecar's client may send in its headers, and what the hop meets. *)
Sent(n, crlf, v) == [name |-> n, crlf |-> crlf, value |-> v]
ClientHeaders ==
    {Sent("authorization", FALSE, "v1"), Sent("authorization", FALSE, "v2"),
     Sent("authorization", TRUE, "v1"), Sent("accept", FALSE, "v1"),
     Sent("mcp-session-id", FALSE, "v1"), Sent("x-forwarded-for", FALSE, "v1"),
     Sent("transfer-encoding", FALSE, "v1")}
Hops ==
    {[Plain EXCEPT !.headers = hs] : hs \in UpTo(3, ClientHeaders)}
Routes ==
    {[Plain EXCEPT !.method = m, !.route = ro, !.upstream = u, !.chunks = cs,
                   !.answer = [PlainAnswer EXCEPT !.chunks = ac]] :
        m \in MCMethods, ro \in {"ok", "path", "query"}, u \in {"answers", "unreachable"},
        cs \in {<<0>>, <<1>>}, ac \in {<<>>, <<1>>, <<1, 2>>}}

Served(d, lifespan, exchanges) ==
    [deployments |-> {d}, lifespans |-> {lifespan}, exchanges |-> exchanges, minted |-> {s1}]

MCWorkloads ==
    {[Served("app", TRUE, {NoExchange}) EXCEPT !.minted = {s1, s3}],
     Served("app", FALSE, {NoExchange}), Served("sidecar", TRUE, {NoExchange}),
     Served("local", FALSE, {NoExchange}),
     Served("app", TRUE, {Plain, [Plain EXCEPT !.method = "initialize"],
                          [Plain EXCEPT !.header = FALSE, !.stateless = TRUE]}),
     Served("sidecar", TRUE, {Plain, [Plain EXCEPT !.method = "initialize"]}),
     Served("sidecar", FALSE, Hops), Served("sidecar", FALSE, Routes)}
    \cup {Served("app", FALSE, exchanges) :
             exchanges \in {Heads, Framings, Requests, Answers, ToolLists, AppFramings}}
===============================================================================
