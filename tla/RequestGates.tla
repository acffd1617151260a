----------------------------- MODULE RequestGates -----------------------------
(***************************************************************************)
(* One request through T2 (engines/authz.py) and then the envelope engine  *)
(* (engines/envelope.py): may this caller call this, does what the client  *)
(* says about itself in _meta restate who it is (reconcile_meta), and do   *)
(* the headers that intermediaries route on agree with the body that the   *)
(* server runs (validate_request_metadata, with the mirroring rules of     *)
(* mcp_protocol.py).  RequestScenes says what they are given.              *)
(***************************************************************************)
EXTENDS RequestScenes, SequencesExt

VARIABLES scene, verdict
gateVars == <<scene, verdict>>

GateInit == (\E family \in Families : scene \in family) /\ verdict = "pending"

header == scene.header
body == scene.body
-------------------------------------------------------------------------------
(* Header values.                                                           *)

(* The mutant leaves a value alone that looks encoded already.              *)
Wrapped(t) == [base64 |-> t]
EncodePlainly(t) == IF t \in Plain \cup {Wrapped(x) : x \in Texts} THEN t ELSE Wrapped(t)
Encode(t) == IF t \in Plain THEN t ELSE Wrapped(t)
Decode(v) == IF \E t \in Texts : v = Wrapped(t) THEN v.base64 ELSE v

Member(node, name) == IF IsObject(node) /\ name \in DOMAIN node.members
                      THEN node.members[name] ELSE Absent
ArgAt(arguments, path) ==
    LET at[i \in 0..Len(path)] == IF i = 0 THEN arguments ELSE Member(at[i - 1], path[i])
    IN  at[Len(path)]

(* What a value makes of its header: nothing, one value, or no agreement    *)
(* whatever the header says.                                                *)
Renderable(v) == v \in Texts \ Unencodable
Mirrored(v) == IF Renderable(v) THEN <<Encode(v)>> ELSE <<>>
-------------------------------------------------------------------------------
(* Tool schemas: x-mcp-header annotations in the order of a walk over the   *)
(* properties, and the name sets of all "properties" mappings.              *)

(* The first annotation of a name counts, also if its target is not         *)
(* primitive and it is skipped itself.                                      *)
Valid(schema, i) ==
    LET a == schema.annotations[i]
    IN  /\ a.token /\ a.primitive
        /\ \A j \in 1..(i - 1) :
            ~ (schema.annotations[j].token /\ schema.annotations[j].header = a.header)
Annotations(schema) ==
    {schema.annotations[i] : i \in {j \in DOMAIN schema.annotations : Valid(schema, j)}}

(* The keys at any depth: no object is further down than ArgumentDepth.     *)
KeysIn(v) ==
    LET nodes == {ArgAt(v, path) : path \in BoundedSeq(Names, ArgumentDepth)}
    IN  UNION {DOMAIN n.members : n \in {x \in nodes : IsObject(x)}}

Spellings(schema, key) == {n \in UNION schema.mappings : Fold[n] = Fold[key]}
Codeclared(schema, names) ==
    \A m \in schema.mappings : m \cap names # {} => names \subseteq m

(* The mutant looks at each spelling by itself.                             *)
CaseVariantUndeclared(schema, key) ==
    Spellings(schema, key) # {} /\ key \notin Spellings(schema, key)
CaseVariant(schema, key) ==
    LET names == Spellings(schema, key)
    IN  /\ names # {}
        /\ key \notin names \/ ~ Codeclared(schema, names)

CaseVariantKeys(schema, v) ==
    IF schema.tooLarge THEN v # Absent /\ v # Object(<<>>)
    ELSE \E key \in KeysIn(v) : CaseVariant(schema, key)
-------------------------------------------------------------------------------
(* validate_request_metadata.                                               *)

NameBearing == {"tools/call", "prompts/get", "resources/read"}
MirroredName == IF body.method = "resources/read" THEN body.uri ELSE body.name
NoParams == \A p \in Params : header.param[p] = <<>>

(* _legacy_gate: a request that an intermediary may have routed as a modern *)
(* one is not passed on as a legacy one.  The mutant forgets the            *)
(* parameters.                                                              *)
LegacyGateForMethods ==
    IF header.method # <<>> \/ header.name # <<>> THEN "mismatch" ELSE "legacy"
LegacyGate ==
    IF header.method # <<>> \/ header.name # <<>> \/ ~ NoParams THEN "mismatch"
    ELSE IF header.version = <<>> \/ header.version[1] \in LegacyVersions THEN "legacy"
    ELSE IF header.version[1] \in Supported THEN "mismatch"
    ELSE "unsupported"

(* Decoded where an annotation reaches through the argument, as the server  *)
(* decodes it; a text that is annotated itself is mirrored as it is.  The   *)
(* mutants decode nothing, and everything.                                  *)
AllDecoded == Opened(body.arguments, Names)
EffectiveRaw(schema) == body.arguments
EffectiveDecoded(schema) == AllDecoded
Effective(schema) ==
    Opened(body.arguments, {a.path[1] : a \in {b \in Annotations(schema) : Len(b.path) > 1}})

HoldTooDeep(arguments) ==
    IsObject(arguments) /\ Range(arguments.members) \cap TooDeep # {}

ParamAgrees(a, value) ==
    /\ value = Absent \/ Renderable(value)
    /\ header.param[a.header] = Mirrored(value)

Parameters ==
    LET schema == scene.registry[body.name]
        declared == {a.header : a \in Annotations(schema)}
    IN  IF HoldTooDeep(body.arguments)
        THEN "invalid"
        ELSE IF CaseVariantKeys(schema, body.arguments) \/ CaseVariantKeys(schema, AllDecoded)
        THEN "invalid"
        ELSE IF /\ \A p \in Params \ declared : header.param[p] = <<>>
                /\ \A a \in Annotations(schema) :
                        ParamAgrees(a, ArgAt(Effective(schema), a.path))
        THEN "modern"
        ELSE "mismatch"

(* The checks in their order; the verdict is that of the first that fails.  *)
Envelope ==
    IF header.alias \/ Len(header.version) > 1 THEN "mismatch"
    ELSE IF body.version = NoVersion THEN LegacyGate
    ELSE IF header.version # <<body.version>> THEN "mismatch"
    ELSE IF body.version \notin Supported THEN "unsupported"
    ELSE IF header.method # <<body.method>> \/ Len(header.name) > 1 THEN "mismatch"
    ELSE IF body.method \in NameBearing /\ ~ Renderable(MirroredName) THEN "invalid"
    ELSE IF header.name # (IF body.method \in NameBearing THEN Mirrored(MirroredName) ELSE <<>>)
    THEN "mismatch"
    ELSE IF body.method # "tools/call" THEN (IF NoParams THEN "modern" ELSE "mismatch")
    ELSE IF body.name \notin DOMAIN scene.registry THEN "invalid"
    ELSE Parameters
-------------------------------------------------------------------------------
(* reconcile_meta.  body.meta is the set of paths through _meta: the steps  *)
(* on the way down, keys by their kind and items by their place in a list,  *)
(* and the value at the end.                                                *)

IdentityKinds == {"subject", "tenant", "client", "scope", "admin"}

(* The engine knows no client id, so none can be restated.                  *)
Conflicts(kind, value) ==
    CASE kind = "subject" -> value # scene.caller.user \/ value = Absent
      [] kind = "tenant" -> value # scene.caller.tenant \/ value = Absent
      [] kind = "client" -> TRUE
      [] kind = "scope" -> value = Absent \/ ~ (value \subseteq scene.caller.scopes)
      [] kind = "admin" -> value # Absent /\ "admin" \notin scene.caller.scopes

(* _visit: a key that cannot be reconciled at its place; an allowlist       *)
(* exempts a top-level key from the search for identity words, no other.    *)
(* The mutant exempts what is below it, too.                                *)
Claims(path, i) ==
    /\ path.steps[i].kind \in IdentityKinds
    /\ i < Len(path.steps) \/ Conflicts(path.steps[i].kind, path.value)
BadKeyUnderApproved(path, i) ==
    Claims(path, i) \/ (path.steps[i].kind = "word" /\ scene.allowlist = "none")
BadKey(path, i) ==
    \/ Claims(path, i)
    \/ path.steps[i].kind = "word" /\ (i > 1 \/ scene.allowlist = "none")

(* _descend: the walk goes no further down than its limit, and no further   *)
(* along a list than MaxItems.                                              *)
Limit(path) == IF path.steps[1].kind = "self" THEN SelfReportedDepth ELSE MetaDepth
CutOff(path, i) ==
    /\ i < Len(path.steps)
    /\ i >= Limit(path) \/ path.steps[i + 1].at > MaxItems

(* Whether the walk comes as far as the i-th step.                          *)
Reached(path, i) == \A j \in 1..(i - 1) : ~ BadKey(path, j) /\ ~ CutOff(path, j)

(* Where the walk is cut off, it rejects what it has not looked at.  The    *)
(* mutant does not.                                                         *)
RejectedAtTop(path) ==
    LET top == path.steps[1].kind
    IN  \/ top = "slashed"
        \/ top = "trace" /\ (Len(path.steps) > 1 \/ path.value = "malformed")
        \/ top \notin {"trace", "self"} /\ scene.allowlist = "lists others"
RejectedWhereSeen(path) ==
    \/ RejectedAtTop(path)
    \/ \E i \in DOMAIN path.steps : Reached(path, i) /\ BadKey(path, i)
Rejected(path) ==
    \/ RejectedAtTop(path)
    \/ \E i \in DOMAIN path.steps : Reached(path, i) /\ (BadKey(path, i) \/ CutOff(path, i))

Reconciled == body.version # MalformedVersion /\ \A path \in body.meta : ~ Rejected(path)
-------------------------------------------------------------------------------
call ==
    [method |-> body.method, name |-> body.name, uri |-> body.uri,
     tenant |-> Member(body.arguments, TenantId), arguments |-> body.arguments]

(* T2.  A destructive call may lack its confirmation.                       *)
Authorize ==
    /\ verdict = "pending" /\ Authorized(scene.caller, call, scene.defaultDeny)
    /\ verdict' = "authorized"
    /\ UNCHANGED scene

Deny ==
    /\ verdict = "pending"
    /\ ~ Authorized(scene.caller, call, scene.defaultDeny) \/ Destructive(call)
    /\ verdict' = "denied"
    /\ UNCHANGED scene

RejectClaims ==
    /\ verdict = "authorized" /\ ~ Reconciled
    /\ verdict' = "untrusted"
    /\ UNCHANGED scene

(* rpc and stdio carry no routing headers.                                  *)
PassUnrouted ==
    /\ verdict = "authorized" /\ Reconciled /\ scene.transport # "http"
    /\ verdict' = "unrouted"
    /\ UNCHANGED scene

Validate ==
    /\ verdict = "authorized" /\ Reconciled /\ scene.transport = "http"
    /\ verdict' = Envelope
    /\ UNCHANGED scene

GateNext == Authorize \/ Deny \/ RejectClaims \/ PassUnrouted \/ Validate

GateSpec == GateInit /\ [][GateNext]_gateVars
-------------------------------------------------------------------------------
(* What an intermediary may read: any copy of a header, decoded.            *)
Read(copies) == {Decode(v) : v \in Range(copies)}

(* What a server may run for an annotated parameter.  It decodes a JSON     *)
(* text to look inside, and may take a key for a declared property that     *)
(* case folding makes of it, whichever declaration applies at that place.   *)
Binds(schema, key, name) ==
    \/ key = name
    \/ Fold[key] = Fold[name] /\ \E m \in schema.mappings : name \in m /\ key \notin m
Found(schema, node, name) ==
    IF ~ IsObject(node) THEN {}
    ELSE {node.members[k] : k \in {j \in DOMAIN node.members : Binds(schema, j, name)}}
Run(schema, path) ==
    LET top == Found(schema, body.arguments, path[1])
        opened == IF Len(path) > 1 THEN {Decoded(v) : v \in top} ELSE top
        at[i \in 1..Len(path)] ==
            IF i = 1 THEN opened ELSE UNION {Found(schema, n, path[i]) : n \in at[i - 1]}
    IN  at[Len(path)] \ {Absent}
RunFor(p) ==
    IF body.method # "tools/call" THEN {}
    ELSE LET schema == scene.registry[body.name]
         IN  UNION {Run(schema, a.path) : a \in {b \in Annotations(schema) : b.header = p}}

AllCopies ==
    UNION {Range(c) : c \in {header.name} \cup {header.param[p] : p \in Params}}

(* TN-04, "split-brained": whatever an intermediary reads in the headers of *)
(* a request that is passed on as a modern one, decoded or not, is what the *)
(* server runs, by exact names or by folded ones, under the name that T2    *)
(* has authorized; and one that is passed on as a legacy one carries        *)
(* nothing that would have been routed on.                                  *)
RoutedAsRun ==
    /\ verdict = "modern" =>
        /\ ~ header.alias
        /\ Range(header.version) = {body.version} /\ Range(header.method) = {body.method}
        /\ Read(header.name) = IF body.method \in NameBearing THEN {Subject(call)} ELSE {}
        /\ \A p \in Params : Read(header.param[p]) = RunFor(p)
        /\ \A c \in AllCopies : Decode(c) \in Plain => c = Decode(c)
    /\ verdict = "legacy" =>
        /\ ~ header.alias
        /\ Range(header.version) \cap Supported = {}
        /\ header.method = <<>> /\ header.name = <<>> /\ NoParams

(* What the access token says, too.                                         *)
Restates(kind, value) ==
    CASE kind = "subject" -> value = scene.caller.user /\ value # Absent
      [] kind = "tenant" -> value = scene.caller.tenant /\ value # Absent
      [] kind = "client" -> FALSE
      [] kind = "scope" -> value # Absent /\ value \subseteq scene.caller.scopes
      [] kind = "admin" -> value = Absent \/ "admin" \in scene.caller.scopes

(* SD-02: of a request that is let through, application code that took      *)
(* identity from _meta would take what the access token says, and finds no  *)
(* identity it would have to interpret, except under top-level keys the     *)
(* operator has listed.  Application code has no limits: it looks at any    *)
(* depth and at every item of a list, which the engine's walk does not, so  *)
(* that what the walk never came to must have been refused.                 *)
NoClaimSurvives ==
    verdict \in {"unrouted", "modern", "legacy"} =>
        \A path \in body.meta : \A i \in DOMAIN path.steps :
            LET kind == path.steps[i].kind
            IN  /\ kind \in IdentityKinds =>
                        i = Len(path.steps) /\ Restates(kind, path.value)
                /\ kind = "word" => i = 1 /\ scene.allowlist = "lists"

(* What a client makes of a body (request_metadata_headers,                 *)
(* x_mcp_param_headers).                                                    *)
CanonicalParam(p) ==
    IF body.method # "tools/call" \/ body.name \notin DOMAIN scene.registry THEN <<>>
    ELSE LET mine == {a \in Annotations(scene.registry[body.name]) : a.header = p}
         IN  IF mine = {} THEN <<>>
             ELSE Mirrored(ArgAt(body.arguments, (CHOOSE a \in mine : TRUE).path))
Canonical ==
    [alias |-> FALSE, version |-> <<body.version>>, method |-> <<body.method>>,
     name |-> IF body.method \in NameBearing THEN Mirrored(MirroredName) ELSE <<>>,
     param |-> [p \in Params |-> CanonicalParam(p)]]

(* A body without anything the rules exclude.                               *)
Servable ==
    /\ body.method \in NameBearing => Renderable(MirroredName)
    /\ body.method = "tools/call" =>
        /\ body.name \in DOMAIN scene.registry
        /\ LET schema == scene.registry[body.name]
           IN  /\ ~ schema.tooLarge
               /\ \A k \in KeysIn(AllDecoded) : \A n \in UNION schema.mappings :
                        Fold[k] = Fold[n] => k = n
               /\ ~ HoldTooDeep(body.arguments)
               /\ \A a \in Annotations(schema) :
                        LET v == ArgAt(body.arguments, a.path)
                        IN  /\ v = Absent \/ Renderable(v)
                            /\ Len(a.path) > 1 =>
                                    Member(body.arguments, a.path[1]) \notin DOMAIN Decodes

(* A client that derives the headers from the body, as this package does it *)
(* for its own requests, is served; one that speaks another version is told *)
(* so (-32022), and can try again.                                          *)
ConformingServed ==
    /\ verdict \notin {"pending", "denied", "authorized", "untrusted", "unrouted"}
    /\ header = Canonical /\ body.version # NoVersion /\ Servable
    => verdict = IF body.version \in Supported THEN "modern" ELSE "unsupported"

(* T2-004b, filter_tools_list: the filtered list never hides from a caller  *)
(* a tool that the gate serves it.                                          *)
ListsWhatIsServed ==
    verdict \notin {"pending", "denied"} /\ body.method = "tools/call" =>
        body.name \in Visible(scene.caller, Texts, scene.defaultDeny)
===============================================================================
