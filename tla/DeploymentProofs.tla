--------------------------- MODULE DeploymentProofs ---------------------------
(***************************************************************************)
(* TLAPS proofs about Deployment: which keys files and processes have, and *)
(* that a complete setup is enough for right answers, for any number of    *)
(* key pairs, chunk files and clients.  No part of IInv is inductive       *)
(* alone: what a process has loaded is right because of the files, and the *)
(* files are right because of where the setup is.                          *)
(***************************************************************************)
EXTENDS Deployment, TLAPS

IInv == TypeOK /\ KeysInv

USE DeploymentAssumption DEF Chunks, Saved

LEMMA InitOK == Init => IInv
  BY DEF Init, IInv, TypeOK, KeysInv, FilesOK, CurrentOK, LoadedOK, SetupPc, Outcomes

LEMMA Stutter == IInv /\ UNCHANGED vars => IInv'
  BY DEF IInv, TypeOK, KeysInv, FilesOK, CurrentOK, LoadedOK, vars, disk, running, server,
         client, query, history

(* The steps of a setup.                                                   *)
LEMMA StartSetupStep ==
  ASSUME IInv, StartSetup
  PROVE  IInv'
  <1> USE DEF IInv, KeysInv, StartSetup, disk, running, server, client, query, history
  <1>1. TypeOK'
    BY DEF TypeOK, SetupPc, Outcomes
  <1>2. FilesOK'
    BY DEF TypeOK, FilesOK
  <1>3. CurrentOK'
    BY DEF TypeOK, FilesOK, CurrentOK
  <1>4. LoadedOK'
    BY DEF TypeOK, CurrentOK, LoadedOK
  <1> QED
    BY <1>1, <1>2, <1>3, <1>4

LEMMA MakeKeysDirStep ==
  ASSUME IInv, MakeKeysDir
  PROVE  IInv'
  <1> USE DEF IInv, KeysInv, MakeKeysDir, disk, running, server, client, query, history
  <1>1. TypeOK'
    BY DEF TypeOK, SetupPc, Outcomes
  <1>2. FilesOK'
    BY DEF TypeOK, FilesOK
  <1>3. CurrentOK'
    BY DEF TypeOK, FilesOK, CurrentOK
  <1>4. LoadedOK'
    BY DEF TypeOK, CurrentOK, LoadedOK
  <1> QED
    BY <1>1, <1>2, <1>3, <1>4

LEMMA SaveServerKeysStep ==
  ASSUME IInv, SaveServerKeys
  PROVE  IInv'
  <1> USE DEF IInv, KeysInv, SaveServerKeys, disk, running, server, client, query, history
  <1>1. TypeOK'
    BY DEF TypeOK, SetupPc, Outcomes
  <1>2. FilesOK'
    BY DEF TypeOK, FilesOK
  <1>3. CurrentOK'
    BY DEF TypeOK, FilesOK, CurrentOK
  <1>4. LoadedOK'
    BY DEF TypeOK, CurrentOK, LoadedOK
  <1> QED
    BY <1>1, <1>2, <1>3, <1>4

LEMMA SavePrivateKeyStep ==
  ASSUME IInv, SavePrivateKey
  PROVE  IInv'
  <1> USE DEF IInv, KeysInv, SavePrivateKey, disk, running, server, client, query, history
  <1>1. TypeOK'
    BY DEF TypeOK, SetupPc, Outcomes
  <1>2. FilesOK'
    BY DEF TypeOK, FilesOK
  <1>3. CurrentOK'
    BY DEF TypeOK, FilesOK, CurrentOK
  <1>4. LoadedOK'
    BY DEF TypeOK, CurrentOK, LoadedOK
  <1> QED
    BY <1>1, <1>2, <1>3, <1>4

LEMMA MakeDataDirStep ==
  ASSUME IInv, MakeDataDir
  PROVE  IInv'
  <1> USE DEF IInv, KeysInv, MakeDataDir, disk, running, server, client, query, history
  <1>1. TypeOK'
    BY DEF TypeOK, SetupPc, Outcomes
  <1>2. FilesOK'
    BY DEF TypeOK, FilesOK
  <1>3. CurrentOK'
    BY DEF TypeOK, FilesOK, CurrentOK
  <1>4. LoadedOK'
    BY DEF TypeOK, CurrentOK, LoadedOK
  <1> QED
    BY <1>1, <1>2, <1>3, <1>4

LEMMA WriteChunkStep ==
  ASSUME NEW table \in {"employees", "departments"},
         NEW files \in {Employees, Departments}, IInv, WriteChunk(table, files)
  PROVE  IInv'
  <1> USE DEF IInv, KeysInv, WriteChunk, disk, running, server, client, query, history
  <1>1. TypeOK'
    BY DEF TypeOK, SetupPc, Outcomes
  <1>2. FilesOK'
    BY DEF TypeOK, FilesOK
  <1>3. CurrentOK'
    BY DEF TypeOK, FilesOK, CurrentOK
  <1>4. LoadedOK'
    BY DEF TypeOK, CurrentOK, LoadedOK
  <1> QED
    BY <1>1, <1>2, <1>3, <1>4

LEMMA EmployeesDoneStep ==
  ASSUME IInv, EmployeesDone
  PROVE  IInv'
  <1> USE DEF IInv, KeysInv, EmployeesDone, disk, running, server, client, query, history
  <1>1. TypeOK'
    BY DEF TypeOK, SetupPc, Outcomes
  <1>2. FilesOK'
    BY DEF TypeOK, FilesOK
  <1>3. CurrentOK'
    BY DEF TypeOK, FilesOK, CurrentOK
  <1>4. LoadedOK'
    BY DEF TypeOK, CurrentOK, LoadedOK
  <1> QED
    BY <1>1, <1>2, <1>3, <1>4

LEMMA SetupCompleteStep ==
  ASSUME IInv, SetupComplete
  PROVE  IInv'
  <1> USE DEF IInv, KeysInv, SetupComplete, disk, running, server, client, query, history
  <1>1. TypeOK'
    BY DEF TypeOK, SetupPc, Outcomes
  <1>2. FilesOK'
    BY DEF TypeOK, FilesOK
  <1>3. CurrentOK'
    BY DEF TypeOK, FilesOK, CurrentOK
  <1>4. LoadedOK'
    BY DEF TypeOK, CurrentOK, LoadedOK
  <1> QED
    BY <1>1, <1>2, <1>3, <1>4

LEMMA SetupCrashStep ==
  ASSUME IInv, SetupCrash
  PROVE  IInv'
  <1> USE DEF IInv, KeysInv, SetupCrash, disk, running, server, client, query, history
  <1>1. TypeOK'
    BY DEF TypeOK, SetupPc, Outcomes
  <1>2. FilesOK'
    BY DEF TypeOK, FilesOK
  <1>3. CurrentOK'
    BY DEF TypeOK, FilesOK, CurrentOK
  <1>4. LoadedOK'
    BY DEF TypeOK, CurrentOK, LoadedOK
  <1> QED
    BY <1>1, <1>2, <1>3, <1>4

(* The server's steps.                                                     *)
LEMMA LoadServerStep ==
  ASSUME IInv, LoadServer
  PROVE  IInv'
  <1> USE DEF IInv, KeysInv, LoadServer, Since,
             disk, running, server, client, query, history
  <1>1. TypeOK'
    BY DEF TypeOK, SetupPc, Outcomes
  <1>2. FilesOK'
    BY DEF TypeOK, FilesOK
  <1>3. CurrentOK'
    BY DEF TypeOK, FilesOK, CurrentOK
  <1>4. LoadedOK'
    BY DEF TypeOK, CurrentOK, LoadedOK
  <1> QED
    BY <1>1, <1>2, <1>3, <1>4

LEMMA OpenStorageStep ==
  ASSUME IInv, OpenStorage
  PROVE  IInv'
  <1> USE DEF IInv, KeysInv, OpenStorage, disk, running, server, client, query, history
  <1>1. TypeOK'
    BY DEF TypeOK, SetupPc, Outcomes
  <1>2. FilesOK'
    BY DEF TypeOK, FilesOK
  <1>3. CurrentOK'
    BY DEF TypeOK, FilesOK, CurrentOK
  <1>4. LoadedOK'
    BY DEF TypeOK, CurrentOK, LoadedOK
  <1> QED
    BY <1>1, <1>2, <1>3, <1>4

LEMMA StopServerStep ==
  ASSUME IInv, StopServer
  PROVE  IInv'
  <1> USE DEF IInv, KeysInv, StopServer, disk, running, server, client, query, history
  <1>1. TypeOK'
    BY DEF TypeOK, SetupPc, Outcomes
  <1>2. FilesOK'
    BY DEF TypeOK, FilesOK
  <1>3. CurrentOK'
    BY DEF TypeOK, FilesOK, CurrentOK
  <1>4. LoadedOK'
    BY DEF TypeOK, CurrentOK, LoadedOK
  <1> QED
    BY <1>1, <1>2, <1>3, <1>4

LEMMA ListChunksStep ==
  ASSUME NEW c \in Clients, IInv, ListChunks(c)
  PROVE  IInv'
  <1> USE DEF IInv, KeysInv, ListChunks, disk, running, server, client, query, history
  <1>1. TypeOK'
    BY DEF TypeOK, SetupPc, Outcomes
  <1>2. FilesOK'
    BY DEF TypeOK, FilesOK
  <1>3. CurrentOK'
    BY DEF TypeOK, FilesOK, CurrentOK
  <1>4. LoadedOK'
    BY DEF TypeOK, CurrentOK, LoadedOK
  <1> QED
    BY <1>1, <1>2, <1>3, <1>4

LEMMA GetChunkStep ==
  ASSUME IInv, GetChunk
  PROVE  IInv'
  <1> USE DEF IInv, KeysInv, GetChunk, disk, running, server, client, query, history
  <1>1. TypeOK'
    BY DEF TypeOK, SetupPc, Outcomes
  <1>2. FilesOK'
    BY DEF TypeOK, FilesOK
  <1>3. CurrentOK'
    BY DEF TypeOK, FilesOK, CurrentOK
  <1>4. LoadedOK'
    BY DEF TypeOK, CurrentOK, LoadedOK
  <1> QED
    BY <1>1, <1>2, <1>3, <1>4

LEMMA ReplyStep ==
  ASSUME IInv, Reply
  PROVE  IInv'
  <1> USE DEF IInv, KeysInv, Reply, Answer, disk, running, server, client, query, history
  <1>1. TypeOK'
    BY DEF TypeOK, SetupPc, Outcomes
  <1>2. FilesOK'
    BY DEF TypeOK, FilesOK
  <1>3. CurrentOK'
    BY DEF TypeOK, FilesOK, CurrentOK
  <1>4. LoadedOK'
    BY DEF TypeOK, CurrentOK, LoadedOK
  <1> QED
    BY <1>1, <1>2, <1>3, <1>4

(* The clients' steps.                                                     *)
LEMMA StartClientStep ==
  ASSUME NEW c \in Clients, IInv, StartClient(c)
  PROVE  IInv'
  <1> USE DEF IInv, KeysInv, StartClient, Since,
             disk, running, server, client, query, history
  <1>1. TypeOK'
    BY DEF TypeOK, SetupPc, Outcomes
  <1>2. FilesOK'
    BY DEF TypeOK, FilesOK
  <1>3. CurrentOK'
    BY DEF TypeOK, FilesOK, CurrentOK
  <1>4. LoadedOK'
    BY DEF TypeOK, CurrentOK, LoadedOK
  <1> QED
    BY <1>1, <1>2, <1>3, <1>4

LEMMA StopClientStep ==
  ASSUME NEW c \in Clients, IInv, StopClient(c)
  PROVE  IInv'
  <1> USE DEF IInv, KeysInv, StopClient, disk, running, server, client, query, history
  <1>1. TypeOK'
    BY DEF TypeOK, SetupPc, Outcomes
  <1>2. FilesOK'
    BY DEF TypeOK, FilesOK
  <1>3. CurrentOK'
    BY DEF TypeOK, FilesOK, CurrentOK
  <1>4. LoadedOK'
    BY DEF TypeOK, CurrentOK, LoadedOK
  <1> QED
    BY <1>1, <1>2, <1>3, <1>4

LEMMA AskStep ==
  ASSUME NEW c \in Clients, IInv, Ask(c)
  PROVE  IInv'
  <1> USE DEF IInv, KeysInv, Ask, disk, running, server, client, query, history
  <1>1. TypeOK'
    BY DEF TypeOK, SetupPc, Outcomes
  <1>2. FilesOK'
    BY DEF TypeOK, FilesOK
  <1>3. CurrentOK'
    BY DEF TypeOK, FilesOK, CurrentOK
  <1>4. LoadedOK'
    BY DEF TypeOK, CurrentOK, LoadedOK
  <1> QED
    BY <1>1, <1>2, <1>3, <1>4

LEMMA ErrorStep ==
  ASSUME NEW c \in Clients, IInv, NetworkError(c) \/ RefuseQuery(c)
  PROVE  IInv'
  <1> USE DEF IInv, KeysInv, NetworkError, RefuseQuery, Answer,
             disk, running, server, client, query, history
  <1>1. TypeOK'
    <2>1. serving # c /\ cpc' = [cpc EXCEPT ![c] = "prompt"]
      BY DEF TypeOK
    <2>2. outcome' \in [Clients -> Outcomes]
      BY DEF TypeOK, Outcomes
    <2>3. UNCHANGED <<disk, running, server, cpub, cpriv, wanted, query, history>>
      OBVIOUS
    <2>4. cpc' \in [Clients -> {"off", "prompt", "waiting"}]
          /\ (serving' # NoClient => spc' = "on" /\ cpc'[serving'] = "waiting")
      BY <2>1, <2>3 DEF TypeOK
    <2> HIDE DEF NetworkError, RefuseQuery, Answer
    <2> QED
      BY <2>2, <2>3, <2>4 DEF TypeOK
  <1>2. FilesOK'
    BY DEF TypeOK, FilesOK
  <1>3. CurrentOK'
    BY DEF TypeOK, FilesOK, CurrentOK
  <1>4. LoadedOK'
    BY DEF TypeOK, CurrentOK, LoadedOK
  <1> QED
    BY <1>1, <1>2, <1>3, <1>4

-----------------------------------------------------------------------------
(* The directories hold the files, and the processes the keys, that a      *)
(* complete setup wrote; the whole of IInv, step by step.                  *)
THEOREM Inductive == Spec => []IInv
  <1>1. IInv /\ [Next]_vars => IInv'
    <2> SUFFICES ASSUME IInv, [Next]_vars PROVE IInv'
      OBVIOUS
    <2>1. CASE WriteChunk("employees", Employees)
      BY <2>1, WriteChunkStep
    <2>2. CASE WriteChunk("departments", Departments)
      BY <2>2, WriteChunkStep
    <2>3. CASE \/ StartSetup \/ MakeKeysDir \/ SaveServerKeys \/ SavePrivateKey \/ MakeDataDir
               \/ EmployeesDone \/ SetupComplete \/ SetupCrash
      BY <2>3, StartSetupStep, MakeKeysDirStep, SaveServerKeysStep, SavePrivateKeyStep,
         MakeDataDirStep, EmployeesDoneStep, SetupCompleteStep, SetupCrashStep
    <2>4. CASE LoadServer \/ OpenStorage \/ StopServer \/ GetChunk \/ Reply
      BY <2>4, LoadServerStep, OpenStorageStep, StopServerStep, GetChunkStep, ReplyStep
    <2>5. ASSUME NEW c \in Clients,
                 \/ StartClient(c) \/ StopClient(c) \/ Ask(c)
                 \/ NetworkError(c) \/ RefuseQuery(c) \/ ListChunks(c)
          PROVE  IInv'
      BY <2>5, StartClientStep, StopClientStep, AskStep, ErrorStep, ListChunksStep
    <2>6. CASE UNCHANGED vars
      BY <2>6, Stutter
    <2> QED
      BY <2>1, <2>2, <2>3, <2>4, <2>5, <2>6 DEF Next
  <1> QED
    BY <1>1, InitOK, PTL DEF Spec

(* Type correctness.                                                       *)
THEOREM TypeCorrect == Spec => []TypeOK
  <1>1. IInv => TypeOK
    BY DEF IInv
  <1> QED
    BY <1>1, Inductive, PTL

(* After a setup that completed every file is of its key pair, and every   *)
(* process started since has it (client_main.cpp:45-115, 389-403).         *)
THEOREM KeysBelongTogether == Spec => []KeysInv
  <1>1. IInv => KeysInv
    BY DEF IInv
  <1> QED
    BY <1>1, Inductive, PTL

-----------------------------------------------------------------------------
AnswersRight ==
    \A c \in Clients : outcome'[c] # outcome[c] /\ {c, Server} \subseteq fresh'
        => outcome'[c] \in {"none", "right", "error"}

(* Only Reply gives rows.                                                  *)
LEMMA OnlyReply ==
  ASSUME IInv, [Next]_vars, ~Reply, NEW c \in Clients, outcome'[c] # outcome[c]
  PROVE  outcome'[c] \in {"none", "error"}
  <1> USE DEF disk, running, server, client, query, history
  <1>1. CASE UNCHANGED outcome
    BY <1>1
  <1>2. CASE \E d \in Clients : \E how \in {"none", "error"} : outcome' = [outcome EXCEPT ![d] = how]
    BY <1>2 DEF IInv, TypeOK
  <1>3. ASSUME NEW d \in Clients,
               \/ StartClient(d) \/ StopClient(d) \/ Ask(d)
               \/ NetworkError(d) \/ RefuseQuery(d) \/ ListChunks(d)
        PROVE  \/ UNCHANGED outcome
               \/ \E how \in {"none", "error"} : outcome' = [outcome EXCEPT ![d] = how]
    BY <1>3 DEF StartClient, StopClient, Ask, NetworkError, RefuseQuery, ListChunks, Answer
  <1>4. CASE \/ StartSetup \/ MakeKeysDir \/ SaveServerKeys \/ SavePrivateKey \/ MakeDataDir
             \/ WriteChunk("employees", Employees) \/ EmployeesDone
             \/ WriteChunk("departments", Departments) \/ SetupComplete \/ SetupCrash
             \/ LoadServer \/ OpenStorage \/ StopServer \/ GetChunk \/ UNCHANGED vars
    BY <1>1, <1>4 DEF StartSetup, MakeKeysDir, SaveServerKeys, SavePrivateKey, MakeDataDir,
       WriteChunk, EmployeesDone, SetupComplete, SetupCrash, LoadServer, OpenStorage,
       StopServer, GetChunk, vars
  <1> QED
    BY <1>1, <1>2, <1>3, <1>4 DEF Next

(* A query between processes that started after a complete setup has read  *)
(* chunks of their key pair only.                                          *)
LEMMA FreshReply ==
  ASSUME IInv, Reply, NEW c \in Clients, outcome'[c] # outcome[c], {c, Server} \subseteq fresh'
  PROVE  outcome'[c] \in {"right", "error"}
  <1>1. c = serving
    BY DEF Reply, Answer, IInv, TypeOK, client
  <1>2. current # NoKey /\ current \in Keys /\ eval = current
        /\ cpub[c] = current /\ cpriv[c] = current /\ seen \subseteq {current}
    BY DEF Reply, history, IInv, TypeOK, KeysInv, LoadedOK
  <1>3. NoKey \notin seen /\ OneKey({}) /\ OneKey({cpub[serving]})
    BY <1>1, <1>2 DEF OneKey
  <1>4. PICK how \in {"right", "error"} : outcome' = [outcome EXCEPT ![serving] = how]
    <2>1. PICK literals \in {{}, {cpub[serving]}} :
            \/ NoKey \notin seen /\ OneKey(literals) /\ Answer(serving, "right")
            \/ NoKey \in seen /\ OneKey(literals) /\ Answer(serving, "short")
            \/ ~OneKey(literals) /\ Torn \notin seen /\ Answer(serving, "noise")
            \/ ~OneKey(literals) /\ Answer(serving, "error")
      BY DEF Reply
    <2> QED
      BY <1>3, <2>1 DEF Answer
  <1> QED
    BY <1>1, <1>4 DEF IInv, TypeOK

(* However many setups were killed and whatever older processes do: after  *)
(* a complete setup, a client and a server started since give right rows   *)
(* or an error (client_main.cpp:45-115, server_main.cpp:58-84).            *)
THEOREM FreshRight == Spec => FreshAnswersRight
  <1>1. IInv /\ [Next]_vars => AnswersRight
    BY OnlyReply, FreshReply DEF AnswersRight
  <1>2. IInv /\ [Next]_vars => [AnswersRight]_vars
    BY <1>1
  <1> QED
    BY <1>2, Inductive, PTL DEF Spec, FreshAnswersRight, AnswersRight
=============================================================================
