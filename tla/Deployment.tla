------------------------------ MODULE Deployment ------------------------------
(***************************************************************************)
(* Keys and data on disk, and the processes that load them: `--setup' of   *)
(* the client program, the start of the server and of the client, and      *)
(* queries seen as "which key is this encrypted under".  Setup may be run  *)
(* again, into the same directories and beside a running server, and may   *)
(* end at any step (a kill, or an exception nothing catches).              *)
(***************************************************************************)
EXTENDS FiniteSets

CONSTANTS
    Keys,           \* key pairs: every setup generates one of its own
    ParamSetOf,     \* the paramSetId of a key pair
    Employees,      \* chunk files of the two tables
    Departments,
    Clients,
    Server, NoClient, NoKey, Torn    \* four other values

ASSUME DeploymentAssumption ==
    /\ NoKey \notin Keys /\ Torn \notin Keys /\ NoKey # Torn
    /\ Server \notin Clients /\ NoClient \notin Clients
    /\ Employees \cap Departments = {}

Chunks == Employees \cup Departments
Saved == Keys \cup {NoKey, Torn}    \* what a file holds: of which key pair

VARIABLES
    dirs,       \* directories that exist: "keys" and "data"
    public,     \* keysDir: context, public and evaluation keys
    private,    \* keysDir/client: the private key
    chunk,      \* dataDir: the key each chunk is encrypted under
    setup,      \* where a running setup is
    made,       \* its key pair
    done,       \* the chunk files it has written
    used,       \* key pairs ever generated
    spc,        \* where the server is
    eval,       \* the keys the server loaded
    cpc,        \* where each client is
    cpub, cpriv,    \* the keys each client loaded
    wanted,     \* the chunk files a client's query is about
    serving,    \* the client whose query is executed
    left,       \* chunk files the executor has still to read
    seen,       \* the keys of those it has read
    outcome,    \* what a client's last query came to
    current,    \* history: key of the setup that completed and nothing changed since
    fresh       \* history: processes that loaded their keys since

disk == <<dirs, public, private, chunk>>
running == <<setup, made, done, used>>
server == <<spc, eval>>
client == <<cpc, cpub, cpriv, wanted, outcome>>
query == <<serving, left, seen>>
history == <<current, fresh>>
vars == <<disk, running, server, client, query, history>>

SetupPc == {"idle", "keysDir", "serverKeys", "privateKey", "dataDir", "employees", "departments"}
Outcomes == {"none", "right", "short", "noise", "error"}

-----------------------------------------------------------------------------
Init ==
    /\ dirs = {} /\ public = NoKey /\ private = NoKey /\ chunk = [f \in Chunks |-> NoKey]
    /\ setup = "idle" /\ made = NoKey /\ done = {} /\ used = {}
    /\ spc = "off" /\ eval = NoKey
    /\ cpc = [c \in Clients |-> "off"]
    /\ cpub = [c \in Clients |-> NoKey] /\ cpriv = cpub
    /\ wanted = [c \in Clients |-> {}] /\ outcome = [c \in Clients |-> "none"]
    /\ serving = NoClient /\ left = {} /\ seen = {}
    /\ current = NoKey /\ fresh = {}

(* runSetup, with ClientCryptoContext::create and saveKeys.                *)
StartSetup ==
    /\ setup = "idle"
    /\ \E k \in Keys \ used : made' = k /\ used' = used \cup {k}
    /\ setup' = "keysDir" /\ done' = {}
    /\ UNCHANGED <<disk, server, client, query, history>>
MakeKeysDir ==
    /\ setup = "keysDir" /\ setup' = "serverKeys"
    /\ dirs' = dirs \cup {"keys"}
    /\ current' = NoKey /\ fresh' = {}
    /\ UNCHANGED <<public, private, chunk, made, done, used, server, client, query>>
SaveServerKeys ==
    /\ setup = "serverKeys" /\ setup' = "privateKey"
    /\ public' = made
    /\ UNCHANGED <<dirs, private, chunk, made, done, used, server, client, query, history>>
(* A mutant: a private key that exists is not replaced.                    *)
SaveFirstPrivateKey ==
    /\ setup = "privateKey" /\ setup' = "dataDir"
    /\ private' = IF private \in Keys THEN private ELSE made
    /\ UNCHANGED <<dirs, public, chunk, made, done, used, server, client, query, history>>
SavePrivateKey ==
    /\ setup = "privateKey" /\ setup' = "dataDir"
    /\ private' = made
    /\ UNCHANGED <<dirs, public, chunk, made, done, used, server, client, query, history>>
MakeDataDir ==
    /\ setup = "dataDir" /\ setup' = "employees"
    /\ dirs' = dirs \cup {"data"}
    /\ UNCHANGED <<public, private, chunk, made, done, used, server, client, query, history>>

(* ingestCSV: a file of the table, in whatever order.  A mutant: files     *)
(* that an earlier setup left are kept.                                    *)
WriteMissing(table, files) ==
    /\ setup = table
    /\ \E f \in files \ done :
          /\ chunk' = [chunk EXCEPT ![f] = IF @ = NoKey THEN made ELSE @]
          /\ done' = done \cup {f}
    /\ UNCHANGED <<dirs, public, private, setup, made, used, server, client, query, history>>
WriteChunk(table, files) ==
    /\ setup = table
    /\ \E f \in files \ done :
          /\ chunk' = [chunk EXCEPT ![f] = made]
          /\ done' = done \cup {f}
    /\ UNCHANGED <<dirs, public, private, setup, made, used, server, client, query, history>>
EmployeesDone ==
    /\ setup = "employees" /\ Employees \subseteq done /\ setup' = "departments"
    /\ UNCHANGED <<disk, made, done, used, server, client, query, history>>
SetupComplete ==
    /\ setup = "departments" /\ Departments \subseteq done /\ setup' = "idle"
    /\ current' = made
    /\ UNCHANGED <<disk, made, done, used, server, client, query, fresh>>

(* The setup ends early; the file it was writing may be torn.              *)
SetupCrash ==
    /\ setup # "idle" /\ setup' = "idle"
    /\ \/ UNCHANGED <<public, private, chunk>>
       \/ setup = "serverKeys" /\ public' = Torn /\ UNCHANGED <<private, chunk>>
       \/ setup = "privateKey" /\ private' = Torn /\ UNCHANGED <<public, chunk>>
       \/ /\ setup \in {"employees", "departments"}
          /\ \E f \in (IF setup = "employees" THEN Employees ELSE Departments) \ done :
                chunk' = [chunk EXCEPT ![f] = Torn]
          /\ UNCHANGED <<public, private>>
    /\ UNCHANGED <<dirs, made, done, used, server, client, query, history>>

-----------------------------------------------------------------------------
Since(process) == fresh' = IF current = NoKey THEN fresh ELSE fresh \cup {process}

(* main of the server, up to the two directories' checks; it ends without  *)
(* keys it can load or without a data directory.  A mutant: the load takes *)
(* whatever it finds.                                                      *)
LoadAnything ==
    /\ spc = "off" /\ "keys" \in dirs
    /\ spc' = "loaded" /\ eval' = public /\ Since(Server)
    /\ UNCHANGED <<disk, running, client, query, current>>
LoadServer ==
    /\ spc = "off" /\ "keys" \in dirs /\ public \in Keys
    /\ spc' = "loaded" /\ eval' = public /\ Since(Server)
    /\ UNCHANGED <<disk, running, client, query, current>>
OpenStorage ==
    /\ spc = "loaded"
    /\ \/ "data" \in dirs /\ spc' = "on" /\ UNCHANGED fresh
       \/ "data" \notin dirs /\ spc' = "off" /\ fresh' = fresh \ {Server}
    /\ UNCHANGED <<disk, running, eval, client, query, current>>
StopServer ==
    /\ spc # "off" /\ spc' = "off" /\ fresh' = fresh \ {Server}
    /\ serving' = NoClient /\ left' = {} /\ seen' = {}
    /\ UNCHANGED <<disk, running, eval, client, current>>

(* main of the client, up to the prompt; it ends without keys it can load. *)
StartClient(c) ==
    /\ cpc[c] = "off" /\ "keys" \in dirs /\ public \in Keys /\ private \in Keys
    /\ cpc' = [cpc EXCEPT ![c] = "prompt"]
    /\ cpub' = [cpub EXCEPT ![c] = public] /\ cpriv' = [cpriv EXCEPT ![c] = private]
    /\ outcome' = [outcome EXCEPT ![c] = "none"] /\ Since(c)
    /\ UNCHANGED <<disk, running, server, wanted, query, current>>
StopClient(c) ==
    /\ cpc[c] # "off" /\ serving # c
    /\ cpc' = [cpc EXCEPT ![c] = "off"] /\ fresh' = fresh \ {c}
    /\ UNCHANGED <<disk, running, server, cpub, cpriv, wanted, outcome, query, current>>

Ask(c) ==
    /\ cpc[c] = "prompt"
    /\ \E files \in {Employees, Departments, Chunks} : wanted' = [wanted EXCEPT ![c] = files]
    /\ cpc' = [cpc EXCEPT ![c] = "waiting"]
    /\ outcome' = [outcome EXCEPT ![c] = "none"]
    /\ UNCHANGED <<disk, running, server, cpub, cpriv, query, history>>
Answer(c, how) ==
    /\ cpc' = [cpc EXCEPT ![c] = "prompt"]
    /\ outcome' = [outcome EXCEPT ![c] = how]
NetworkError(c) ==
    /\ cpc[c] = "waiting" /\ serving # c
    /\ Answer(c, "error")
    /\ UNCHANGED <<disk, running, server, cpub, cpriv, wanted, query, history>>

(* The handler: validate compares the names of the parameter sets; execute *)
(* lists the chunks of the table and reads them one by one.                *)
Compatible(c) == ParamSetOf[cpub[c]] = ParamSetOf[eval]
RefuseQuery(c) ==
    /\ spc = "on" /\ serving = NoClient /\ cpc[c] = "waiting" /\ ~Compatible(c)
    /\ Answer(c, "error")
    /\ UNCHANGED <<disk, running, server, cpub, cpriv, wanted, query, history>>
ListChunks(c) ==
    /\ spc = "on" /\ serving = NoClient /\ cpc[c] = "waiting" /\ Compatible(c)
    /\ serving' = c
    /\ left' = {f \in wanted[c] : chunk[f] # NoKey}
    /\ seen' = {chunk[f] : f \in wanted[c]} \cap {NoKey}
    /\ UNCHANGED <<disk, running, server, client, history>>
GetChunk ==
    /\ serving # NoClient
    /\ \E f \in left : left' = left \ {f} /\ seen' = seen \cup {chunk[f]}
    /\ UNCHANGED <<disk, running, server, client, serving, history>>

(* Rows are right only if the chunks, the literals if the statement has    *)
(* any, the evaluation keys and the private key belong together; else the  *)
(* library throws or gives meaningless slots.  A chunk that is not listed  *)
(* is not missed, and without a chunk nothing is evaluated.                *)
OneKey(literals) ==
    seen \subseteq {NoKey} \/ (seen \ {NoKey}) \cup literals \cup {cpriv[serving]} \subseteq {eval}
Reply ==
    /\ serving # NoClient /\ left = {}
    /\ \E literals \in {{}, {cpub[serving]}} :
          \/ NoKey \notin seen /\ OneKey(literals) /\ Answer(serving, "right")
          \/ NoKey \in seen /\ OneKey(literals) /\ Answer(serving, "short")
          \/ ~OneKey(literals) /\ Torn \notin seen /\ Answer(serving, "noise")
          \/ ~OneKey(literals) /\ Answer(serving, "error")
    /\ serving' = NoClient /\ seen' = {}
    /\ UNCHANGED <<disk, running, server, cpub, cpriv, wanted, left, history>>

Next ==
    \/ StartSetup \/ MakeKeysDir \/ SaveServerKeys \/ SavePrivateKey \/ MakeDataDir
    \/ WriteChunk("employees", Employees) \/ EmployeesDone
    \/ WriteChunk("departments", Departments) \/ SetupComplete \/ SetupCrash
    \/ LoadServer \/ OpenStorage \/ StopServer \/ GetChunk \/ Reply
    \/ \E c \in Clients : \/ StartClient(c) \/ StopClient(c) \/ Ask(c)
                          \/ NetworkError(c) \/ RefuseQuery(c) \/ ListChunks(c)

Spec == Init /\ [][Next]_vars

-----------------------------------------------------------------------------
TypeOK ==
    /\ dirs \subseteq {"keys", "data"}
    /\ public \in Saved /\ private \in Saved /\ chunk \in [Chunks -> Saved]
    /\ setup \in SetupPc /\ made \in Keys \cup {NoKey} /\ done \subseteq Chunks
    /\ used \subseteq Keys /\ (setup # "idle" => made \in used)
    /\ spc \in {"off", "loaded", "on"} /\ eval \in Keys \cup {NoKey}
    /\ cpc \in [Clients -> {"off", "prompt", "waiting"}]
    /\ cpub \in [Clients -> Keys \cup {NoKey}] /\ cpriv \in [Clients -> Keys \cup {NoKey}]
    /\ wanted \in [Clients -> SUBSET Chunks] /\ outcome \in [Clients -> Outcomes]
    /\ serving \in Clients \cup {NoClient} /\ left \subseteq Chunks /\ seen \subseteq Saved
    /\ (serving # NoClient => spc = "on" /\ cpc[serving] = "waiting")
    /\ current \in Keys \cup {NoKey} /\ fresh \subseteq Clients \cup {Server}

(* What the files hold while a setup runs, after one completed, and what   *)
(* the processes that loaded keys since then have and have read.           *)
FilesOK ==
    /\ setup \in {"privateKey", "dataDir", "employees", "departments"} => public = made
    /\ setup \in {"dataDir", "employees", "departments"} => private = made
    /\ setup \in {"keysDir", "serverKeys", "privateKey", "dataDir"} => done = {}
    /\ setup \in {"employees", "departments"} => \A f \in done : chunk[f] = made
    /\ setup = "departments" => Employees \subseteq done
CurrentOK ==
    current # NoKey =>
        /\ setup \in {"idle", "keysDir"}
        /\ public = current /\ private = current /\ \A f \in Chunks : chunk[f] = current
LoadedOK ==
    /\ current = NoKey => fresh = {}
    /\ serving = NoClient => seen = {}
    /\ Server \in fresh => spc # "off" /\ eval = current /\ seen \subseteq {current}
    /\ \A c \in Clients : c \in fresh => cpub[c] = current /\ cpriv[c] = current
KeysInv == FilesOK /\ CurrentOK /\ LoadedOK

(* Whatever setups were killed before, and whatever an older server or     *)
(* client does with older keys: once a setup has completed and both have   *)
(* been started since, a query is answered with the rows or an error,      *)
(* never with rows that are missing or meaningless (client_main.cpp:45-115,*)
(* 389-403, server_main.cpp:58-84).                                        *)
FreshAnswersRight ==
    [][\A c \in Clients : outcome'[c] # outcome[c] /\ {c, Server} \subseteq fresh'
          => outcome'[c] \in {"none", "right", "error"}]_vars

(* query_package.h:23: "FHE parameter metadata — enough for the server to  *)
(* validate compatibility."  A query the server accepts is not answered    *)
(* with slots that no key decrypts.                                        *)
AcceptedIsCompatible == \A c \in Clients : outcome[c] # "noise"
=============================================================================
