------------------------------ MODULE MCRemotes ------------------------------
(***************************************************************************)
(* Servers, for TLC: the remotes, their provisioning, and the local server *)
(* of development.  They share no state: which one is studied is chosen in *)
(* the initial state, and the state of the others stays as it is.  Runs of *)
(* the deploy command, hosts and requests are interchangeable.             *)
(***************************************************************************)
EXTENDS AwsRemote, CloudflareRemote, Provisioning, LocalProxy, TLC

CONSTANTS app, appx, beta, v1, v2, v3, index, encoded, Studied

VARIABLE studied

Perms == Permutations(Deployers) \cup Permutations(Tasks) \cup Permutations(Hosts)

DefaultOnly == {None}

DefaultAndBeta == {None, beta}

\* The texts "app", "app-x", "app-x/beta" and "app/beta", in the order of KV.
KeysInOrder == <<<<app, None>>, <<appx, None>>, <<appx, beta>>, <<app, beta>>>>

KeysOfApp == <<<<app, None>>, <<app, beta>>>>

\* Every host has a server; another path decodes to that of the page.
ServerOf == [h \in Hosts |-> <<"server of", h>>]

Decoded == [p \in Paths |-> IF p = encoded THEN index ELSE p]

\* The versions are 1.1, 1.10 and 1.2.0.
JsonValue == [v \in Versions |-> IF v = v3 THEN Malformed ELSE v1]

NoJsonValue == [v \in Versions |-> Malformed]

\* Bounds: the one version that is uploaded is v1, the only one that a Worker ever
\* looks for, with all metadata or without any.  On AWS, where the texts do not
\* matter, one other version is deployed, and, as each bundle has a document of its
\* own, one bundle: the other one is only asked for.
UploadBound == \A u \in uploads' : u.version = v1 /\ u.metadata # {"integrity"}

AwsBound ==
    \A x \in uploads' \cup {deployer'[d] : d \in Deployers} : x.name # appx /\ x.version # v3

RemotesInit ==
    /\ studied \in Studied
    /\ Init /\ CfInit /\ LocalInit
    /\ IF studied = "provisioning" THEN PInit ELSE PInit /\ stack = "aws"

RemotesNext ==
    /\ UNCHANGED studied
    /\ \/ studied = "aws" /\ Next /\ UploadBound /\ AwsBound /\ UNCHANGED <<cfVars, pVars, localVars>>
       \/ studied = "cloudflare" /\ CfNext /\ UploadBound /\ UNCHANGED <<awsVars, pVars, localVars>>
       \/ studied = "provisioning" /\ PNext /\ UNCHANGED <<vars, cfVars, localVars>>
       \/ studied = "local" /\ LocalNext /\ UNCHANGED <<vars, cfVars, pVars>>

RemotesSpec == RemotesInit /\ [][RemotesNext]_<<vars, cfVars, pVars, localVars, studied>>
=============================================================================
