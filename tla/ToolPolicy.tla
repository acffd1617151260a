------------------------------- MODULE ToolPolicy -------------------------------
(***************************************************************************)
(* engines/authz.py (T2), the part that remembers nothing: what a caller   *)
(* may call, what a confirmation is bound to, and which tools a caller is  *)
(* shown.                                                                  *)
(*                                                                         *)
(* A caller is the request's context: [stateless, session, user, tenant,   *)
(* scopes].  A call is [method, name, uri, tenant, arguments], tenant being *)
(* the tenant_id among the arguments.                                      *)
(***************************************************************************)

CONSTANTS
    Policies,      \* of some tools: [required, userOnly, tenantIsolated, destructive]
    Absent         \* no user, no tenant, no name

ContentBearing == {"tools/call", "resources/read", "resources/subscribe", "prompts/get"}
(* The methods that carry no invocation, by those the models use.           *)
Passthrough == {"initialize", "server/discover", "ping", "tools/list"}

(* Tools and prompts go by their name only, resources by their uri only.    *)
Subject(call) ==
    IF call.method \in {"resources/read", "resources/subscribe"} THEN call.uri ELSE call.name

Meets(caller, call, policy) ==
    /\ policy.required \subseteq caller.scopes
    /\ policy.userOnly => caller.user # Absent
    /\ policy.tenantIsolated => call.tenant # Absent /\ call.tenant = caller.tenant

(* on_request up to the confirmation.                                       *)
Authorized(caller, call, defaultDeny) ==
    IF call.method \in ContentBearing
    THEN /\ Subject(call) # Absent
         /\ IF Subject(call) \in DOMAIN Policies
            THEN Meets(caller, call, Policies[Subject(call)])
            ELSE ~ defaultDeny
    ELSE \/ ~ defaultDeny
         \/ call.method \in Passthrough /\ (call.method = "server/discover" => caller.stateless)

Destructive(call) ==
    /\ call.method \in ContentBearing /\ Subject(call) \in DOMAIN Policies
    /\ Policies[Subject(call)].destructive

(* A session that lasts, or else a principal; bound to the tool and the     *)
(* arguments as well.  The mutant leaves the arguments out.                 *)
Bindable(caller) == caller.stateless => caller.user # Absent
Owner(caller) ==
    IF caller.stateless THEN <<"stateless", caller.user, caller.tenant>>
    ELSE <<"session", caller.session>>
BindingWithoutArguments(caller, call) ==
    [owner |-> Owner(caller), tool |-> Subject(call)]
Binding(caller, call) ==
    [owner |-> Owner(caller), tool |-> Subject(call), tenant |-> call.tenant,
     arguments |-> call.arguments]
Account(caller) ==
    IF caller.user = Absent THEN <<"anonymous">> ELSE <<caller.user, caller.tenant>>

(* filter_tools_list.  The mutant shows only what has a policy.             *)
VisibleWithPolicy(caller, tools, defaultDeny) ==
    {x \in tools \cap DOMAIN Policies : Policies[x].required \subseteq caller.scopes}
Visible(caller, tools, defaultDeny) ==
    {x \in tools : IF x \in DOMAIN Policies
                   THEN Policies[x].required \subseteq caller.scopes
                   ELSE ~ defaultDeny}
===============================================================================
