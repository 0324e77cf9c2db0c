------------------------------- MODULE Archive -------------------------------
(***************************************************************************)
(* What QueryPackage, QueryResponse and EncryptedResultBatch become as     *)
(* payloads of frames: src/query/query_package.cpp, src/result/result.cpp  *)
(* and the two ends of src/transport/transport.cpp.  An archive holds the  *)
(* listed fields one after the other, without names: reading starts from a *)
(* default-constructed object and takes the same list again.               *)
(*                                                                         *)
(* A payload is a sequence of tokens: a number, an enumerator or a size is *)
(* one, a character or a byte of a ciphertext is one.                      *)
(***************************************************************************)
EXTENDS Naturals, SequencesExt

CONSTANTS Packages, Responses, Batches   \* objects the two programs send

Number == [shape |-> "number"]
Bytes == [shape |-> "bytes", new |-> <<>>]      \* std::string, vector<uint8_t>
ListOf(element) == [shape |-> "list", new |-> <<>>, of |-> element]
Struct(new, fields) == [shape |-> "struct", new |-> new, fields |-> fields]

(* The members with their initializers, and the list of each serialize.    *)
NoNode == "UINT32_MAX"
NewFHEParamsMeta == [paramSetId |-> <<>>, plaintextModulus |-> 0, multiplicativeDepth |-> 0,
                     ringDimension |-> 0, slotCount |-> 0, keyId |-> <<>>]
FHEParamsMeta == Struct(NewFHEParamsMeta,
    << <<"paramSetId", Bytes>>, <<"plaintextModulus", Number>>, <<"multiplicativeDepth", Number>>,
       <<"ringDimension", Number>>, <<"slotCount", Number>>, <<"keyId", Bytes>> >>)
NewEncryptedLiteralEntry ==
    [id |-> 0, logicalType |-> <<>>, ciphertextBytes |-> <<>>, logicalSize |-> 0]
EncryptedLiteralEntry == Struct(NewEncryptedLiteralEntry,
    << <<"id", Number>>, <<"logicalType", Bytes>>, <<"ciphertextBytes", Bytes>>,
       <<"logicalSize", Number>> >>)
NewPredNode == [kind |-> "ColumnRef", columnName |-> <<>>, literalId |-> 0, stringWidth |-> 0,
                left |-> NoNode, right |-> NoNode]
(* A mutant: the member added for strings is not in the list.              *)
PredNodeBeforeStrings == Struct(NewPredNode,
    << <<"kind", Number>>, <<"columnName", Bytes>>, <<"literalId", Number>>,
       <<"left", Number>>, <<"right", Number>> >>)
PredNode == Struct(NewPredNode,
    << <<"kind", Number>>, <<"columnName", Bytes>>, <<"literalId", Number>>,
       <<"stringWidth", Number>>, <<"left", Number>>, <<"right", Number>> >>)
ColumnSchema == Struct([name |-> <<>>, type |-> "INT64", maxLength |-> 0],
    << <<"name", Bytes>>, <<"type", Number>>, <<"maxLength", Number>> >>)
NewQueryPackage ==
    [queryId |-> <<>>, protocolVersion |-> 2, schemaVersion |-> 1, tableName |-> <<>>,
     tableAlias |-> <<>>, joinedTableName |-> <<>>, joinedTableAlias |-> <<>>,
     joinLeftColumn |-> <<>>, joinRightColumn |-> <<>>, hasJoin |-> FALSE, scanColumns |-> <<>>,
     projectColumns |-> <<>>, resultSchema |-> <<>>, predicateNodes |-> <<>>,
     encryptedLiterals |-> <<>>, fheParams |-> NewFHEParamsMeta, shardId |-> 0, partitionId |-> 0]
QueryPackage == Struct(NewQueryPackage,
    << <<"queryId", Bytes>>, <<"protocolVersion", Number>>, <<"schemaVersion", Number>>,
       <<"tableName", Bytes>>, <<"tableAlias", Bytes>>, <<"joinedTableName", Bytes>>,
       <<"joinedTableAlias", Bytes>>, <<"joinLeftColumn", Bytes>>, <<"joinRightColumn", Bytes>>,
       <<"hasJoin", Number>>, <<"scanColumns", ListOf(Bytes)>>, <<"projectColumns", ListOf(Bytes)>>,
       <<"resultSchema", ListOf(ColumnSchema)>>, <<"predicateNodes", ListOf(PredNode)>>,
       <<"encryptedLiterals", ListOf(EncryptedLiteralEntry)>>, <<"fheParams", FHEParamsMeta>>,
       <<"shardId", Number>>, <<"partitionId", Number>> >>)

NewResponse == [success |-> FALSE, errorMessage |-> <<>>, batchCount |-> 0, queryId |-> <<>>]
ResponseWritten == Struct(NewResponse,
    << <<"success", Number>>, <<"errorMessage", Bytes>>, <<"batchCount", Number>>,
       <<"queryId", Bytes>> >>)
ResponseRead == Struct(NewResponse,
    << <<"success", Number>>, <<"errorMessage", Bytes>>, <<"batchCount", Number>>,
       <<"queryId", Bytes>> >>)
NewEncryptedColumnResult ==
    [columnName |-> <<>>, logicalType |-> <<"I", "N", "T", "6", "4">>, stringPosition |-> 0,
     ciphertextBytes |-> <<>>, logicalSize |-> 0]
EncryptedColumnResult == Struct(NewEncryptedColumnResult,
    << <<"columnName", Bytes>>, <<"logicalType", Bytes>>, <<"stringPosition", Number>>,
       <<"ciphertextBytes", Bytes>>, <<"logicalSize", Number>> >>)
NewEncryptedResultBatch ==
    [batchId |-> 0, logicalRowCount |-> 0, columns |-> <<>>, selectionMaskBytes |-> <<>>,
     hasMask |-> FALSE]
EncryptedResultBatch == Struct(NewEncryptedResultBatch,
    << <<"batchId", Number>>, <<"logicalRowCount", Number>>,
       <<"columns", ListOf(EncryptedColumnResult)>>, <<"selectionMaskBytes", Bytes>>,
       <<"hasMask", Number>> >>)

-----------------------------------------------------------------------------
(* cereal's binary archives.  A message is a struct of values, lists and   *)
(* structs; what a list holds, and what a struct in a message has for      *)
(* members, are values, or structs of values.                              *)
PutValue(s, v) == IF s.shape = "number" THEN <<v>> ELSE <<Len(v)>> \o v
PutMembers(put(_, _), s, v) ==
    FlattenSeq([i \in DOMAIN s.fields |-> put(s.fields[i][2], v[s.fields[i][1]])])
PutStruct(s, v) == PutMembers(PutValue, s, v)
PutItem(s, v) == IF s.shape = "struct" THEN PutStruct(s, v) ELSE PutValue(s, v)
PutMember(s, v) ==
    IF s.shape = "list" THEN <<Len(v)>> \o FlattenSeq([i \in DOMAIN v |-> PutItem(s.of, v[i])])
    ELSE PutItem(s, v)
Put(s, v) == PutMembers(PutMember, s, v)

(* What was read into an object, and how far the archive has been read.    *)
Exhausted == [ok |-> FALSE]
Read(value, at) == [ok |-> TRUE, value |-> value, at |-> at]
GetValue(s, v, archive, at) ==
    IF at = Len(archive) THEN Exhausted
    ELSE IF s.shape = "number" THEN Read(archive[at + 1], at + 1)
    ELSE LET end == at + 1 + archive[at + 1]
         IN  IF Len(archive) < end THEN Exhausted ELSE Read(SubSeq(archive, at + 2, end), end)
GetMembers(get(_, _, _, _), s, v, archive, at) ==
    LET next(r, f) ==
            IF ~r.ok THEN Exhausted
            ELSE LET m == get(f[2], r.value[f[1]], archive, r.at)
                 IN  IF m.ok THEN Read([r.value EXCEPT ![f[1]] = m.value], m.at) ELSE Exhausted
        after[i \in 0..Len(s.fields)] ==
            IF i = 0 THEN Read(v, at) ELSE next(after[i - 1], s.fields[i])
    IN  after[Len(s.fields)]
GetStruct(s, v, archive, at) == GetMembers(GetValue, s, v, archive, at)
GetItem(s, v, archive, at) ==
    IF s.shape = "struct" THEN GetStruct(s, v, archive, at) ELSE GetValue(s, v, archive, at)
GetElements(s, archive, at) ==
    LET next(r) ==
            IF ~r.ok THEN Exhausted
            ELSE LET e == GetItem(s.of, s.of.new, archive, r.at)
                 IN  IF e.ok THEN Read(Append(r.value, e.value), e.at) ELSE Exhausted
        after[i \in 0..archive[at + 1]] == IF i = 0 THEN Read(<<>>, at + 1) ELSE next(after[i - 1])
    IN  after[archive[at + 1]]
GetMember(s, v, archive, at) ==
    IF s.shape # "list" THEN GetItem(s, v, archive, at)
    ELSE IF at = Len(archive) THEN Exhausted ELSE GetElements(s, archive, at)
Get(s, v, archive, at) == GetMembers(GetMember, s, v, archive, at)

(* Objects of a type: with its members, and sequences where it has them.   *)
IsSeq(v) == v \in Seq(ToSet(v))
IsValue(s, v) == s.shape # "number" => IsSeq(v)
HasMembers(is(_, _), s, v) ==
    /\ v = [f \in DOMAIN s.new |-> v[f]]
    /\ \A i \in DOMAIN s.fields : is(s.fields[i][2], v[s.fields[i][1]])
IsStruct(s, v) == HasMembers(IsValue, s, v)
IsItem(s, v) == IF s.shape = "struct" THEN IsStruct(s, v) ELSE IsValue(s, v)
IsMember(s, v) ==
    IF s.shape = "list" THEN IsSeq(v) /\ \A i \in DOMAIN v : IsItem(s.of, v[i]) ELSE IsItem(s, v)
IsObject(s, v) == HasMembers(IsMember, s, v)
ASSUME ArchiveAssumption ==
    /\ \A p \in Packages : IsObject(QueryPackage, p)
    /\ \A r \in Responses : IsObject(ResponseWritten, r)
    /\ \A b \in Batches : IsObject(EncryptedResultBatch, b)

-----------------------------------------------------------------------------
VARIABLES
    message,    \* the kind and the object being sent
    payload,    \* its frame's payload
    whole,      \* all of the payload is there
    received    \* what deserialize returned

vars == <<message, payload, whole, received>>

Idle == [kind |-> "idle"]
Messages == [kind : {"QueryPackage"}, object : Packages]
              \cup [kind : {"QueryResponse"}, object : Responses]
              \cup [kind : {"ResultBatch"}, object : Batches]
Written(kind) ==
    CASE kind = "QueryPackage" -> QueryPackage
      [] kind = "QueryResponse" -> ResponseWritten
      [] kind = "ResultBatch" -> EncryptedResultBatch
ToBeRead(kind) == IF kind = "QueryResponse" THEN ResponseRead ELSE Written(kind)
NotYet == [shape |-> "nothing"]

Init == message = Idle /\ payload = <<>> /\ whole = TRUE /\ received = NotYet

Payload(m) == Put(Written(m.kind), m.object)
Serialize ==
    /\ message = Idle
    /\ \E m \in Messages : message' = m /\ payload' = Payload(m)
    /\ UNCHANGED <<whole, received>>
(* The sender is of another build, whose archive ends earlier.             *)
EndsEarly ==
    /\ message # Idle /\ whole /\ received = NotYet
    /\ \E n \in 0..(Len(payload) - 1) : payload' = SubSeq(payload, 1, n)
    /\ whole' = FALSE
    /\ UNCHANGED <<message, received>>
ObjectOf(kind, bytes) ==
    LET s == ToBeRead(kind)
        got == Get(s, s.new, bytes, 0)
    IN  IF got.ok THEN [object |-> got.value] ELSE Exhausted
Deserialize ==
    /\ message # Idle /\ received = NotYet
    /\ received' = ObjectOf(message.kind, payload)
    /\ UNCHANGED <<message, payload, whole>>
NextMessage ==
    /\ received # NotYet
    /\ message' = Idle /\ payload' = <<>> /\ whole' = TRUE /\ received' = NotYet

Next == Serialize \/ EndsEarly \/ Deserialize \/ NextMessage
Spec == Init /\ [][Next]_vars

-----------------------------------------------------------------------------
(* An object arrives with every member it was sent with, and an archive    *)
(* that ends early is an exception, never an object with some members at   *)
(* their defaults (query_package.cpp:14-43, result.cpp:14-24,              *)
(* transport.cpp:149-155 and 263-270).                                     *)
ArrivesAsSent ==
    received # NotYet =>
        received = IF whole THEN [object |-> message.object] ELSE Exhausted
=============================================================================
