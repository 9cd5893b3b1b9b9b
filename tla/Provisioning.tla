---------------------------- MODULE Provisioning ----------------------------
(***************************************************************************)
(* The cloud resources of a remote, declared by the Pulumi components      *)
(* (packages/remote/aws-provider-pulumi, cloudflare-provider-pulumi).  A   *)
(* component says what its resources are made of and what they wait for;   *)
(* the engine, which is external, makes, changes and deletes them in any   *)
(* order that respects this, several at a time, and stops when one fails.  *)
(***************************************************************************)
EXTENDS Naturals, FiniteSets

CONSTANTS
    MaxEdits,    \* bound: changes of the program's configuration
    MaxFailures  \* bound: resources that could not be made or changed

ASSUME ProvisioningAssumption == MaxEdits \in Nat /\ MaxFailures \in Nat

VARIABLES
    stack,       \* the component: "aws" or "cloudflare"
    edition,     \* edition of the configuration, from 1
    built,       \* resource -> edition it was made or last changed with, 0 if there is none
    command,     \* "none", "up" or "destroy"
    failures,    \* history: number of failures
    stopped      \* history: the last command did not come to its end

pVars == <<stack, edition, built, command, failures, stopped>>

-----------------------------------------------------------------------------
(* What each resource waits for: the outputs it is made of, and dependsOn  *)

StorageEdges ==
    {<<"bucket", "provider">>, <<"identity", "usEast1">>,
     <<"bucket_policy", "bucket">>, <<"bucket_policy", "identity">>, <<"bucket_policy", "provider">>}

RoleEdges ==
    {<<"lambda_role", "usEast1">>, <<"lambda_role_policy", "lambda_role">>, <<"lambda_role_policy", "usEast1">>}

\* The code of both functions has the name of the bucket compiled in.
CodeEdges == {<<f, "bucket">> : f \in {"origin_request", "origin_response"}}

\* Mutated form: without dependsOn a function waits only for its role.
LambdaEdgesByReference ==
    CodeEdges \cup {<<f, r>> : f \in {"origin_request", "origin_response"}, r \in {"lambda_role", "usEast1"}}

LambdaEdges ==
    CodeEdges \cup {<<f, r>> : f \in {"origin_request", "origin_response"},
                               r \in {"lambda_role", "lambda_role_policy", "usEast1"}}

DistributionEdges ==
    {<<"distribution", r>> : r \in {"bucket", "identity", "origin_request", "origin_response", "usEast1"}}

AwsEdges == StorageEdges \cup RoleEdges \cup LambdaEdges \cup DistributionEdges

\* The version of the worker is bound to the bucket and the namespace.
CloudflareEdges ==
    {<<"worker", "bucket">>, <<"worker", "kv">>,
     <<"worker_version", "worker">>, <<"worker_version", "bucket">>, <<"worker_version", "kv">>,
     <<"worker_deployment", "worker">>, <<"worker_deployment", "worker_version">>}

Edges == IF stack = "aws" THEN AwsEdges ELSE CloudflareEdges

Resources == {e[1] : e \in AwsEdges \cup CloudflareEdges} \cup {e[2] : e \in AwsEdges \cup CloudflareEdges}

Mine == {e[1] : e \in Edges} \cup {e[2] : e \in Edges}

WaitsFor(r) == {d \in Resources : <<r, d>> \in Edges}

UsedBy(r) == {d \in Resources : <<d, r>> \in Edges}

-----------------------------------------------------------------------------
(* The engine                                                              *)

PInit ==
    /\ stack \in {"aws", "cloudflare"}
    /\ edition = 1
    /\ built = [r \in Resources |-> 0]
    /\ command = "none"
    /\ failures = 0
    /\ stopped = FALSE

\* The operator edits the configuration (allowOtherVersions, names, tags).
Edit ==
    /\ command = "none"
    /\ edition <= MaxEdits
    /\ edition' = edition + 1
    /\ UNCHANGED <<stack, built, command, failures, stopped>>

Up ==
    /\ command = "none" /\ \E r \in Mine : built[r] # edition
    /\ command' = "up"
    /\ UNCHANGED <<stack, edition, built, failures, stopped>>

\* A resource is made, or changed, when all it waits for is as declared now.
Make(r) ==
    /\ command = "up"
    /\ built[r] # edition
    /\ \A d \in WaitsFor(r) : built[d] = edition
    /\ built' = [built EXCEPT ![r] = edition]
    /\ UNCHANGED <<stack, edition, command, failures, stopped>>

\* The cloud refuses to make or change it.
Refuse(r) ==
    /\ command = "up" /\ failures < MaxFailures
    /\ built[r] # edition
    /\ \A d \in WaitsFor(r) : built[d] = edition
    /\ failures' = failures + 1
    /\ command' = "none" /\ stopped' = TRUE
    /\ UNCHANGED <<stack, edition, built>>

UpDone ==
    /\ command = "up" /\ \A r \in Mine : built[r] = edition
    /\ command' = "none" /\ stopped' = FALSE
    /\ UNCHANGED <<stack, edition, built, failures>>

Destroy ==
    /\ command = "none" /\ \E r \in Mine : built[r] # 0
    /\ command' = "destroy"
    /\ UNCHANGED <<stack, edition, built, failures, stopped>>

\* A resource is deleted when nothing that uses it is left.
Delete(r) ==
    /\ command = "destroy"
    /\ built[r] # 0
    /\ \A d \in UsedBy(r) : built[d] = 0
    /\ built' = [built EXCEPT ![r] = 0]
    /\ UNCHANGED <<stack, edition, command, failures, stopped>>

DestroyDone ==
    /\ command = "destroy" /\ \A r \in Mine : built[r] = 0
    /\ command' = "none" /\ stopped' = FALSE
    /\ UNCHANGED <<stack, edition, built, failures>>

\* The operator interrupts a command.
Interrupt ==
    /\ command # "none"
    /\ command' = "none" /\ stopped' = TRUE
    /\ UNCHANGED <<stack, edition, built, failures>>

PNext ==
    \/ Edit \/ Up \/ UpDone \/ Destroy \/ DestroyDone \/ Interrupt
    \/ \E r \in Mine : Make(r) \/ Refuse(r) \/ Delete(r)

PSpec == PInit /\ [][PNext]_pVars

-----------------------------------------------------------------------------
(* Properties                                                              *)

\* What answers a request, and what it waits for of that which it takes: the
\* distribution runs both functions, which read the bucket with the rights of the
\* role policy; the deployed worker reads the bucket and the namespace it is bound to.
Route ==
    {<<"distribution", r>> : r \in {"bucket", "identity", "origin_request", "origin_response",
                                    "lambda_role_policy"}}
    \cup {<<"worker_deployment", r>> : r \in {"worker_version", "bucket", "kv"}}

\* What is reachable from outside is never ahead of these: while resources are
\* made, changed and deleted in any order, after a failure and after an
\* interruption (provider.ts:204-252, dependsOn).  The policy that lets the
\* distribution read the bundles in the bucket is not one of them: nothing waits
\* for it (provider.ts:122-153, 294-349).  It is behind the distribution only while
\* a command runs, or after one that did not come to its end.
RouteIsReady ==
    /\ \A e \in Route : built[e[1]] <= built[e[2]]
    /\ command = "none" /\ ~stopped => built["distribution"] <= built["bucket_policy"]

PTypeOK ==
    /\ stack \in {"aws", "cloudflare"}
    /\ edition \in 1..(MaxEdits + 1)
    /\ built \in [Resources -> 0..(MaxEdits + 1)]
    /\ command \in {"none", "up", "destroy"}
    /\ failures \in 0..MaxFailures
    /\ stopped \in BOOLEAN
=============================================================================
