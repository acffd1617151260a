---------------------------- MODULE MCRequestGates ----------------------------
(***************************************************************************)
(* Four families of requests, each with the rest of the request as it      *)
(* should be: callers and policies; every combination of routing headers   *)
(* with every kind of body; arguments and parameter headers under schemas; *)
(* claims in _meta.                                                        *)
(***************************************************************************)
EXTENDS RequestGates, TLC

CONSTANTS modern, legacy, other,
          plain, unicode, surrogate, json, deep,
          guarded, isolated, low, Low, in, tenantId, f1, f2, f3, h1, h2, me, they, org

MCTexts == {plain, unicode, surrogate, json, deep, Wrapped(plain), guarded, isolated, org, they}
MCDecodes == json :> Object(low :> plain)
MCFold == low :> f1 @@ Low :> f1 @@ in :> f2 @@ tenantId :> f3

Policy(required, owned) ==
    [required |-> required, userOnly |-> owned, tenantIsolated |-> owned,
     destructive |-> required # {}]
MCPolicies == guarded :> Policy({"write"}, FALSE) @@ isolated :> Policy({}, TRUE)

Caller(user, tenant, scopes) ==
    [stateless |-> FALSE, session |-> Absent, user |-> user, tenant |-> tenant, scopes |-> scopes]
Plainly == Caller(me, Absent, {})
Admin == Caller(me, org, {"read", "admin"})

Annotated(h, path, primitive) ==
    [header |-> h, path |-> path, token |-> TRUE, primitive |-> primitive]
Schema(annotations, mappings) ==
    [annotations |-> annotations, mappings |-> mappings, tooLarge |-> FALSE]

(* One annotation; two spellings declared together, and apart; one inside   *)
(* an object; a name used twice, the first time on an object.               *)
One == Schema(<<Annotated(h1, <<low>>, TRUE)>>, {{low}})
Schemas ==
    {One,
     [One EXCEPT !.tooLarge = TRUE],
     [One EXCEPT !.annotations[1].token = FALSE],
     Schema(<<Annotated(h1, <<low>>, TRUE), Annotated(h2, <<Low>>, TRUE)>>, {{low, Low}}),
     Schema(<<Annotated(h1, <<low>>, TRUE)>>, {{low, in}, {Low}}),
     Schema(<<Annotated(h1, <<in, low>>, TRUE), Annotated(h2, <<Low>>, TRUE)>>,
            {{in, Low}, {low}}),
     Schema(<<Annotated(h1, <<in, low>>, TRUE)>>, {{in}, {low}}),
     Schema(<<Annotated(h1, <<in>>, FALSE), Annotated(h1, <<low>>, TRUE)>>, {{in, low}})}

NoHeaders == [p \in Params |-> <<>>]
Request(transport, header_, body_) ==
    [transport |-> transport, header |-> header_, body |-> body_,
     registry |-> plain :> One, caller |-> Plainly, allowlist |-> "none",
     defaultDeny |-> FALSE]
Bare == [alias |-> FALSE, version |-> <<>>, method |-> <<>>, name |-> <<>>, param |-> NoHeaders]
Body(method, name, uri, version, arguments) ==
    [method |-> method, name |-> name, uri |-> uri, version |-> version, meta |-> {},
     arguments |-> arguments]

Authorizing ==
    {[Request("http", Bare,
        Body(m, n, u, NoVersion, IF x = Absent THEN Absent ELSE Object(tenantId :> x)))
        EXCEPT !.caller = [Caller(user, tenant, scopes) EXCEPT !.stateless = stateless],
               !.defaultDeny = deny] :
       m \in {"tools/call", "resources/read", "ping", "server/discover", "custom"},
       n \in {guarded, isolated, plain, Absent}, u \in {isolated, Absent},
       x \in {org, they, Absent}, user \in {me, Absent}, tenant \in {org, Absent},
       scopes \in {{}, {"write"}}, stateless \in BOOLEAN, deny \in BOOLEAN}

Routing ==
    {Request("http",
        [alias |-> a, version |-> v, method |-> m, name |-> n,
         param |-> [NoHeaders EXCEPT ![h1] = p]],
        Body(bm, s, IF bm = "resources/read" THEN s ELSE Absent, bv, Object(<<>>))) :
       a \in BOOLEAN,
       v \in {<<>>, <<modern>>, <<legacy>>, <<other>>, <<modern, modern>>},
       m \in {<<>>, <<"tools/call">>, <<"resources/read">>, <<"ping">>, <<"ping", "ping">>},
       n \in {<<>>, <<plain>>, <<unicode>>, <<Wrapped(plain)>>, <<Wrapped(unicode)>>,
              <<Wrapped(Wrapped(plain))>>, <<plain, unicode>>},
       p \in {<<>>, <<plain>>},
       bm \in {"tools/call", "resources/read", "ping"},
       s \in {plain, unicode, surrogate, Wrapped(plain), Absent},
       bv \in {modern, legacy, other, NoVersion, MalformedVersion}}

Values == {Absent, plain, unicode, json, Object(low :> unicode), Object(Low :> plain)}
Arguments ==
    {Absent} \cup {Object(f) : f \in UNION {[ns -> Values] : ns \in SUBSET {low, Low, in}}
                                  \cup [{low} -> {Unrenderable, surrogate, deep}]}

Calling ==
    {[Request("http",
        [alias |-> FALSE, version |-> <<modern>>, method |-> <<"tools/call">>,
         name |-> <<plain>>, param |-> h1 :> x @@ h2 :> y],
        Body("tools/call", plain, Absent, modern, arguments))
        EXCEPT !.registry = plain :> schema] :
       x \in {<<>>, <<plain>>, <<Wrapped(unicode)>>, <<json>>, <<plain, plain>>},
       y \in {<<>>, <<plain>>},
       arguments \in Arguments, schema \in Schemas}

Key(kind) == [kind |-> kind, at |-> 0]
Item(n) == [kind |-> "item", at |-> n]
(* An item the walk looks at, and one it does not.                          *)
Below == {Key("plain"), Key("word"), Key("subject"), Key("scope"), Item(1), Item(MaxItems + 1)}
ValuesOf(kind) ==
    CASE kind \in {"subject", "client"} -> {me, they, Absent}
      [] kind = "tenant" -> {org, they, Absent}
      [] kind = "scope" -> {{"read"}, {"read", "write"}, Absent}
      [] kind = "admin" -> {TRUE, Absent}
      [] kind = "trace" -> {"malformed", "good"}
      [] OTHER -> {Absent}
Paths ==
    UNION {{[steps |-> steps, value |-> v] : v \in ValuesOf(steps[Len(steps)].kind)} :
        steps \in {<<Key(top)>> \o rest :
            top \in IdentityKinds \cup {"plain", "word", "self", "trace", "slashed"},
            rest \in UNION {[1..n -> Below] : n \in 0..SelfReportedDepth}}}

Claiming ==
    {[Request(transport,
        Bare, [Body("ping", Absent, Absent, NoVersion, Absent) EXCEPT !.meta = {path}])
        EXCEPT !.caller = caller, !.allowlist = allowlist] :
       transport \in {"http", "stdio"}, path \in Paths, caller \in {Plainly, Admin},
       allowlist \in {"none", "lists", "lists others"}}

MCFamilies == {Authorizing, Routing, Calling, Claiming}
===============================================================================
