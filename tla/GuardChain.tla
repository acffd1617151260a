------------------------------ MODULE GuardChain ------------------------------
(***************************************************************************)
(* guard.py, _run_request and _run_response, as wrap_dispatcher            *)
(* (adapters/dispatcher.py) drives them, and what the chain learns: the    *)
(* tool schemas that T3 and the envelope engine keep from an accepted      *)
(* tools/list.                                                             *)
(*                                                                         *)
(* Of the engines, T12 suspends (its append comes first on a request and   *)
(* last on a response), T3 decides by what was learned, and the others may *)
(* reject anything.  The code between two awaits is one step.  A wrapped   *)
(* dispatcher may itself call a wrapped dispatcher, on the same task.      *)
(***************************************************************************)
EXTENDS Integers, Sequences, FiniteSets

CONSTANTS
    Tasks,
    Names,       \* what an entry of "tools" may have as its "name", what is false in
                 \* Python apart (null, [], 0), which neither store takes
    Plain,       \* those of them that are strings, and not empty
    EmptyName,   \* the empty string
    Unhashable,  \* objects and arrays, which are no keys; what is left are numbers, true
    Schemas,     \* null, which T3 keeps as {}, is one of them
    NoSchema,
    Manifests,   \* what a result's "tools" may hold
    Methods,     \* the methods clients call
    StrictSchema,
    EnvelopeCap, \* _MAX_REGISTERED_TOOLS
    NoMethod,    \* nothing is in flight
    MaxDepth,    \* bound: calls nested on one task
    MaxCalls     \* bound: calls ever made

(* An entry whose name came before in its list is passed over by both       *)
(* stores, so a manifest is a list without such entries; it may be empty.   *)
Entry == [name : Names, schema : Schemas]

ASSUME NamesAssumption ==
    /\ Plain \subseteq Names /\ EmptyName \in Names /\ Unhashable \subseteq Names
    /\ EmptyName \notin Plain /\ Unhashable \cap (Plain \cup {EmptyName}) = {}
ASSUME ManifestAssumption ==
    /\ Manifests \subseteq Seq(Entry) /\ <<>> \in Manifests
    /\ \A m \in Manifests : \A i, j \in 1..Len(m) : m[i].name = m[j].name => i = j
ASSUME CapAssumption == EnvelopeCap \in Nat /\ MaxDepth \in Nat \ {0} /\ MaxCalls \in Nat
ASSUME NoneAssumption == NoSchema \notin Schemas /\ NoMethod \notin Methods

VARIABLES
    dryRun,      \* _dry_run
    schemas,     \* ValidationEngine._tool_schemas
    envSchemas,  \* EnvelopeEngine._tool_schemas
    inflight,    \* _inflight_method of each task
    stack,       \* the calls under way on each task, innermost last
    made,        \* calls made so far
    ended,       \* how the last call to end did (history)
    brokenOff    \* a commit of schemas has raised half-way (history)

vars == <<dryRun, schemas, envSchemas, inflight, stack, made, ended, brokenOff>>

Strings == Plain \cup {EmptyName}
Endings == {"none", "answered", "rejected", "broken off"}

(* nested records that another call was made inside, on the same task.      *)
Frame == [method : Methods, tool : Strings, pc : {"request", "upstream", "response"},
          manifest : Manifests, violated : BOOLEAN, nested : BOOLEAN]

Init ==
    /\ dryRun \in BOOLEAN
    /\ schemas = [x \in Names |-> NoSchema]
    /\ envSchemas = [x \in Names |-> NoSchema]
    /\ inflight = [t \in Tasks |-> NoMethod]
    /\ stack = [t \in Tasks |-> <<>>]
    /\ made = 0
    /\ ended = "none" /\ brokenOff = FALSE

Known(store) == {x \in Names : store[x] # NoSchema}

At(t, pc) == stack[t] # <<>> /\ stack[t][Len(stack[t])].pc = pc
Top(t) == stack[t][Len(stack[t])]
Becomes(t, frame) == stack' = [stack EXCEPT ![t][Len(stack[t])] = frame]
Leave(t, how) ==
    /\ stack' = [stack EXCEPT ![t] = SubSeq(@, 1, Len(@) - 1)]
    /\ ended' = how

(* _inflight_method is a ContextVar.  The mutant makes it a global.         *)
InFlightGlobal(t, m) == [u \in Tasks |-> m]
InFlight(t, m) == [inflight EXCEPT ![t] = m]
-------------------------------------------------------------------------------
(* The request.                                                             *)

(* protected and _run_request up to the first await.                        *)
Call(t, m, x) ==
    /\ stack[t] = <<>> \/ (At(t, "upstream") /\ Len(stack[t]) < MaxDepth)
    /\ made < MaxCalls /\ made' = made + 1
    /\ inflight' = InFlight(t, m)
    /\ LET outer == [i \in DOMAIN stack[t] |-> [stack[t][i] EXCEPT !.nested = TRUE]]
       IN  stack' = [stack EXCEPT ![t] =
                Append(outer, [method |-> m, tool |-> x, pc |-> "request",
                               manifest |-> <<>>, violated |-> FALSE, nested |-> FALSE])]
    /\ UNCHANGED <<dryRun, schemas, envSchemas, ended, brokenOff>>

(* T3's schema gate: no manifest learned yet, or the tool is in it.         *)
ToolKnown(f) == Known(schemas) = {} \/ f.tool \in Known(schemas)
SchemaGate(f) == StrictSchema /\ f.method = "tools/call" => ToolKnown(f)

(* In a dry run only T1 and T2 reject.                                      *)
Admit(t) ==
    /\ At(t, "request")
    /\ dryRun \/ SchemaGate(Top(t))
    /\ Becomes(t, [Top(t) EXCEPT !.pc = "upstream"])
    /\ UNCHANGED <<dryRun, schemas, envSchemas, inflight, made, ended, brokenOff>>

(* An engine raises, or T12's append fails: the method stays in flight.     *)
RejectRequest(t) ==
    /\ At(t, "request")
    /\ Leave(t, "rejected")
    /\ UNCHANGED <<dryRun, schemas, envSchemas, inflight, made, brokenOff>>

(* The dispatcher raises, or MCPResponse.from_dict does.                    *)
UpstreamFails(t) ==
    /\ At(t, "upstream")
    /\ Leave(t, "rejected")
    /\ UNCHANGED <<dryRun, schemas, envSchemas, inflight, made, brokenOff>>
-------------------------------------------------------------------------------
(* The response.                                                            *)

(* Any result may carry "tools".  The engines before T12 find nothing, or   *)
(* in a dry run only log what they found.                                   *)
Answer(t, manifest, violated) ==
    /\ At(t, "upstream")
    /\ violated => dryRun
    /\ Becomes(t, [Top(t) EXCEPT !.pc = "response", !.manifest = manifest,
                                  !.violated = violated])
    /\ UNCHANGED <<dryRun, schemas, envSchemas, inflight, made, ended, brokenOff>>

(* An engine rejects the response (in a dry run: T1 or T2), or T12's append *)
(* fails at its end; the finally clause consumes the method.                *)
RejectResponse(t) ==
    /\ At(t, "upstream") \/ At(t, "response")
    /\ inflight' = InFlight(t, NoMethod)
    /\ Leave(t, "rejected")
    /\ UNCHANGED <<dryRun, schemas, envSchemas, made, brokenOff>>

(* What a store holds after register_tools has taken those entries of a     *)
(* manifest: the first write wins.  The mutant lets the last one win.       *)
SchemaIn(manifest, taken, x) ==
    manifest[CHOOSE i \in taken : manifest[i].name = x].schema
NamesIn(manifest, taken) == {manifest[i].name : i \in taken}

RegisteredLast(store, manifest, taken) ==
    [x \in Names |-> IF x \in NamesIn(manifest, taken)
                     THEN SchemaIn(manifest, taken, x) ELSE store[x]]
Registered(store, manifest, taken) ==
    [x \in Names |-> IF x \in NamesIn(manifest, taken) \ Known(store)
                     THEN SchemaIn(manifest, taken, x) ELSE store[x]]

(* The entries T3 comes to take: any name that is true in Python, up to the *)
(* first that cannot be looked up in its dict, at which it raises.          *)
ByT3(manifest) ==
    {i \in 1..Len(manifest) :
        /\ manifest[i].name # EmptyName
        /\ \A j \in 1..i : manifest[j].name \notin Unhashable}
Raises(manifest) == \E i \in 1..Len(manifest) : manifest[i].name \in Unhashable

(* The envelope engine takes strings only, the first of the new ones, up to *)
(* its cap.  The mutant has no cap.                                         *)
New(manifest) == {i \in 1..Len(manifest) : manifest[i].name \in Strings \ Known(envSchemas)}
ByEnvelopeWithoutCap(manifest) == {New(manifest)}
ByEnvelope(manifest) ==
    LET new == New(manifest)
        room == EnvelopeCap - Cardinality(Known(envSchemas))
    IN  {taken \in SUBSET new :
            /\ Cardinality(taken) = IF Cardinality(new) < room THEN Cardinality(new) ELSE room
            /\ \A i \in taken, j \in new : j < i => j \in taken}

(* The envelope engine stands before T3 in the chain, and has taken all it  *)
(* takes when T3 raises.                                                    *)
Commit(manifest) ==
    /\ schemas' = Registered(schemas, manifest, ByT3(manifest))
    /\ \E taken \in ByEnvelope(manifest) :
           envSchemas' = Registered(envSchemas, manifest, taken)

(* _commit_tool_schemas.  The mutant takes any result's tools.              *)
CommitsAnyResult(t) == ~ Top(t).violated
Commits(t) == ~ Top(t).violated /\ inflight[t] = "tools/list"

Return(t) ==
    /\ At(t, "response")
    /\ IF Commits(t) THEN ~Raises(Top(t).manifest) /\ Commit(Top(t).manifest)
                     ELSE UNCHANGED <<schemas, envSchemas>>
    /\ inflight' = InFlight(t, NoMethod)
    /\ Leave(t, "answered")
    /\ UNCHANGED <<dryRun, made, brokenOff>>

(* T3's TypeError ends the call without an answer; what has been taken      *)
(* stays.                                                                   *)
CommitBreaksOff(t) ==
    /\ At(t, "response")
    /\ Commits(t) /\ Raises(Top(t).manifest) /\ Commit(Top(t).manifest)
    /\ inflight' = InFlight(t, NoMethod)
    /\ Leave(t, "broken off")
    /\ brokenOff' = TRUE
    /\ UNCHANGED <<dryRun, made>>

Next ==
    \E t \in Tasks :
        \/ \E m \in Methods, x \in Strings : Call(t, m, x)
        \/ Admit(t)
        \/ RejectRequest(t)
        \/ UpstreamFails(t)
        \/ \E m \in Manifests, v \in BOOLEAN : Answer(t, m, v)
        \/ RejectResponse(t)
        \/ Return(t)
        \/ CommitBreaksOff(t)

Spec == Init /\ [][Next]_vars
-------------------------------------------------------------------------------
(* Typing; the envelope's registry stays within its cap; and unless a       *)
(* commit has broken off it never disagrees with T3 about a tool's schema,  *)
(* though it may be full and learn nothing when T3 does: "first-write-wins  *)
(* per tool name" (T3-005) in both, or a later manifest would reach only    *)
(* one of them.                                                             *)
TypeOK ==
    /\ dryRun \in BOOLEAN
    /\ schemas \in [Names -> Schemas \cup {NoSchema}]
    /\ envSchemas \in [Names -> Schemas \cup {NoSchema}]
    /\ Cardinality(Known(envSchemas)) <= EnvelopeCap
    /\ ~brokenOff => \A x \in Known(envSchemas) \cap Plain : envSchemas[x] = schemas[x]
    /\ inflight \in [Tasks -> Methods \cup {NoMethod}]
    /\ stack \in [Tasks -> Seq(Frame)] /\ \A t \in Tasks : Len(stack[t]) <= MaxDepth
    /\ made \in 0..MaxCalls /\ ended \in Endings /\ brokenOff \in BOOLEAN

(* A step of t that ends its call, after the whole response chain has       *)
(* accepted what was answered.                                              *)
Accepted(t) ==
    /\ At(t, "response") /\ Len(stack'[t]) < Len(stack[t])
    /\ ended' \in {"answered", "broken off"}

Listing(t) == Top(t).method = "tools/list" /\ ~ Top(t).violated

(* What the step adds to a store is in the list, and nothing goes.          *)
LearnsFrom(store, learned, manifest) ==
    \A x \in Names :
        \/ learned[x] = store[x]
        \/ x \notin Known(store) /\ \E i \in 1..Len(manifest) :
                                      manifest[i] = [name |-> x, schema |-> learned[x]]

(* "Only for a genuine tools/list round trip", and only after the whole     *)
(* response chain accepted it: no step of any kind changes T3's store or    *)
(* the envelope's, but the end of a call whose answer was accepted, was to  *)
(* a tools/list and without violations, and what is learned is in that      *)
(* answer, whatever other tasks have in flight.                             *)
(* (Where calls nest on one task, an inner tools/list that is rejected      *)
(* leaves its method in flight for the outer call.)                         *)
(* And the other way round: an answered tools/list without violations is    *)
(* learned, so that the tools it names can be called.                       *)
LearnsWhatIsListed ==
    [][ /\ <<schemas, envSchemas>>' # <<schemas, envSchemas>> =>
              \E t \in Tasks :
                  /\ Accepted(t) /\ (Listing(t) \/ Top(t).nested)
                  /\ LearnsFrom(schemas, schemas', Top(t).manifest)
                  /\ LearnsFrom(envSchemas, envSchemas', Top(t).manifest)
        /\ \A t \in Tasks :
              Accepted(t) /\ ended' = "answered" /\ Listing(t) /\ ~ Top(t).nested =>
                  \A i \in 1..Len(Top(t).manifest) :
                      Top(t).manifest[i].name \in Known(schemas') \cup {EmptyName} ]_vars
===============================================================================
