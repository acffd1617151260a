----------------------------- MODULE RequestScenes -----------------------------
(***************************************************************************)
(* What the gates of RequestGates are given: a scene is a request, the     *)
(* context it is authenticated in, and the tool schemas that were learned  *)
(* before.                                                                 *)
(*                                                                         *)
(* header: alias (a name spelled so that it may be taken for another), and *)
(* the copies of each routing header.  body: method, name, uri, version,   *)
(* arguments, and meta, the paths through _meta.  A schema of the registry *)
(* has its x-mcp-header annotations in the order of a walk over it and the *)
(* sets of names it declares together (mappings).                          *)
(***************************************************************************)
EXTENDS Integers, Sequences, FiniteSets, Functions, ToolPolicy

CONSTANTS
    Families,     \* sets of scenes
    Supported, LegacyVersions,
    NoVersion, MalformedVersion, \* what _meta may name instead of a version
    Texts,        \* names and argument values, numbers and booleans as rendered
    Plain,        \* those that travel in a header as they are
    Unencodable,  \* those that are not UTF-8 (lone surrogates)
    Decodes,      \* the object that a JSON text holds, for texts that hold one
    TooDeep,      \* texts that hold JSON nested too deep
    Unrenderable, \* a value that no header can carry
    Names, Fold,  \* argument names, and what case folding makes of them
    TenantId,     \* the name tenant_id
    Params,       \* names of Mcp-Param-* headers
    ArgumentDepth, \* bound: names on the way to an object among the arguments
    MetaDepth, SelfReportedDepth, \* _MAX_META_DEPTH, _MAX_SELF_REPORTED_DEPTH
    MaxItems      \* how much of a list is looked at, 256

(* A JSON object, by its members.                                           *)
Object(members) == [members |-> members]
IsObject(v) == v \notin Texts \cup {Absent, Unrenderable}

(* Decoded as the server decodes them: a text that holds an object, and the *)
(* arguments with such texts under some of their names.                     *)
Decoded(v) == IF v \in DOMAIN Decodes THEN Decodes[v] ELSE v
Opened(arguments, names) ==
    IF ~ IsObject(arguments) THEN arguments
    ELSE LET raw == arguments.members
         IN  Object([k \in DOMAIN raw |-> IF k \in names THEN Decoded(raw[k]) ELSE raw[k]])

ASSUME TextAssumption ==
    /\ Plain \subseteq Texts /\ Unencodable \subseteq Texts \ Plain /\ Absent \notin Texts
    /\ \A t \in DOMAIN Decodes : IsObject(Decodes[t])
    /\ TenantId \in Names /\ DOMAIN Decodes \subseteq Plain /\ TooDeep \subseteq Plain
    /\ \A t \in Texts : [base64 |-> t] \notin Plain
ASSUME VersionAssumption == Supported \cap LegacyVersions = {}
ASSUME DepthAssumption ==
    /\ ArgumentDepth \in Nat /\ MaxItems \in Nat
    /\ MetaDepth \in Nat \ {0} /\ SelfReportedDepth \in Nat \ {0}

(* A step on a path through _meta: a key, of some kind, or the at-th item   *)
(* of a list; at is 0 for a key, and the kind of an item is "item".         *)
Step == [kind : STRING, at : Nat]

(* An annotation is no deeper than the arguments.                           *)
Annotation ==
    [header : Params, path : {path \in Seq(Names) : Len(path) \in 1..(ArgumentDepth + 1)},
     token : BOOLEAN, primitive : BOOLEAN]

IsScene(s) ==
    /\ s.header.version \in Seq(Range(s.header.version))
    /\ s.body.name \in Texts \cup {Absent}
    /\ IsObject(s.body.arguments) =>
        /\ DOMAIN s.body.arguments.members \subseteq Names
        /\ \A names \in SUBSET Names : IsObject(Opened(s.body.arguments, names))
    /\ s.allowlist \in {"none", "lists", "lists others"}
    /\ \A path \in s.body.meta : path.steps \in Seq(Step) /\ path.steps # <<>>
    /\ \A tool \in DOMAIN s.registry : s.registry[tool].annotations \in Seq(Annotation)

ASSUME SceneAssumption == \A family \in Families : \A s \in family : IsScene(s)
===============================================================================
