----------------------------- MODULE A2ADialect -----------------------------
(***************************************************************************)
(* The conversions of the A2A client (a2a.go, a2a_grpc.go).  A value is    *)
(* rewritten each time it is sent: to the current dialect, to the legacy   *)
(* one, or through the protobuf messages of the gRPC binding and back.  An *)
(* item is one of the things rewritten (a part of a message, a role, a     *)
(* task state, the wait of a send configuration, a push configuration, the *)
(* ids of a push configuration request), and a behaviour is what becomes   *)
(* of it hop by hop, as in an agent that hands on what it received.        *)
(*                                                                         *)
(* A part is a map from its keys to values, as the code has it.  Strings   *)
(* are tokens: case and surrounding space do not tell two apart, except    *)
(* that a string may be blank.  The bytes of a file carry their encoding.  *)
(***************************************************************************)
EXTENDS Naturals, Sequences, FiniteSets, FiniteSetsExt, TLC

CONSTANTS
  Hops,     \* the conversions a behaviour may use: current, legacy, grpc
  MaxHops   \* bound: conversions in a row

VARIABLES
  item,    \* the value as it is now
  origin,  \* the value at first
  carried, \* gRPC was among the hops
  hops     \* conversions so far

vars == <<item, origin, carried, hops>>

Empty == [k \in {} |-> ""]

-----------------------------------------------------------------------------
(* Parts.                                                                  *)

UrlKeys == <<"url", "uri">>
RawKeys == <<"raw", "fileWithBytes", "bytes">>
NameKeys == <<"filename", "fileName", "name">>
MediaKeys == <<"mediaType", "mimeType">>
FileKeys == {"url", "uri", "raw", "bytes", "fileWithBytes", "filename", "fileName", "mediaType", "mimeType"}

firstA2APartString(source, keys) ==
  LET set == {i \in DOMAIN keys : keys[i] \in DOMAIN source /\ source[keys[i]] # ""} IN
  IF set = {} THEN "" ELSE source[keys[Min(set)]]

\* The value under the first of the keys that is there, under a new key.
firstA2APartValue(source, keys, key) ==
  LET set == {i \in DOMAIN keys : keys[i] \in DOMAIN source} IN
  IF set = {} THEN Empty ELSE key :> source[keys[Min(set)]]

putString(key, value) == IF value = "" THEN Empty ELSE key :> value

copyWithoutKeys(part, keys) == [k \in DOMAIN part \ keys |-> part[k]]

a2aPartKind(part) ==
  CASE "kind" \in DOMAIN part -> part["kind"]
    [] "kind" \notin DOMAIN part /\ "type" \in DOMAIN part -> part["type"]
    [] OTHER -> IF "text" \in DOMAIN part THEN "text"
                ELSE IF "data" \in DOMAIN part THEN "data"
                ELSE IF DOMAIN part \cap (FileKeys \cup {"file"}) # {} THEN "file" ELSE ""

normalizeA2AFilePartForCurrent(source) ==
  putString("url", firstA2APartString(source, UrlKeys))
    @@ firstA2APartValue(source, RawKeys, "raw")
    @@ putString("filename", firstA2APartString(source, NameKeys))
    @@ putString("mediaType", firstA2APartString(source, MediaKeys))
    @@ firstA2APartValue(source, <<"metadata">>, "metadata")

fileOf(part) == IF "file" \in DOMAIN part THEN part["file"] ELSE part

normalizeA2APartForCurrent(part) ==
  IF a2aPartKind(part) = "file" THEN normalizeA2AFilePartForCurrent(fileOf(part))
                                ELSE copyWithoutKeys(part, {"kind", "type"})

normalizeA2APartForLegacy(part) ==
  LET kind == a2aPartKind(part)
      file == putString("uri", firstA2APartString(part, UrlKeys))
                @@ firstA2APartValue(part, RawKeys, "fileWithBytes")
                @@ putString("name", firstA2APartString(part, NameKeys))
                @@ putString("mimeType", firstA2APartString(part, MediaKeys))
      nested == IF kind = "file" /\ "file" \notin DOMAIN part /\ DOMAIN file # {}
                THEN "file" :> file ELSE Empty
  IN nested @@ putString("kind", IF kind \in {"text", "data", "file"} THEN kind ELSE "")
       @@ copyWithoutKeys(part, {"type"})

\* The bytes are decoded.
bytesFromA2AFilePart(source) == firstA2APartValue(source, <<"raw", "bytes", "fileWithBytes">>, "raw")["raw"][2]

\* The address wins over the bytes; the name and the media type of the part win
\* over those of its file.
partToProto(part) ==
  LET kind == a2aPartKind(part)
      url == firstA2APartString(fileOf(part), UrlKeys)
      stringOf(keys) == IF firstA2APartString(part, keys) = "" /\ kind = "file"
                        THEN firstA2APartString(fileOf(part), keys) ELSE firstA2APartString(part, keys)
  IN [content |-> CASE kind = "text" -> <<"text", part["text"]>>
                    [] kind = "data" -> <<"data", part["data"]>>
                    [] kind = "file" -> IF url # "" THEN <<"url", url>>
                                        ELSE <<"raw", bytesFromA2AFilePart(fileOf(part))>>,
      filename |-> stringOf(NameKeys), mediaType |-> stringOf(MediaKeys),
      metadata |-> firstA2APartValue(part, <<"metadata">>, "metadata")]

\* The bytes are encoded in the standard way.
partFromProto(p) ==
  (CASE p.content[1] = "text" -> "kind" :> "text" @@ "text" :> p.content[2]
     [] p.content[1] = "data" -> "kind" :> "data" @@ "data" :> p.content[2]
     [] p.content[1] = "url" -> "kind" :> "file" @@ "file" :> ("url" :> p.content[2] @@ "uri" :> p.content[2])
     [] p.content[1] = "raw" -> "kind" :> "file" @@ "file" :> ("bytes" :> <<"std", p.content[2]>>))
    @@ putString("filename", p.filename) @@ putString("mediaType", p.mediaType) @@ p.metadata

-----------------------------------------------------------------------------
(* Roles and task states.                                                  *)

normalizeA2ARoleForLegacy(role) ==
  CASE role = "ROLE_USER" -> "user" [] role = "ROLE_AGENT" -> "agent"
    [] role = "ROLE_UNSPECIFIED" -> "" [] OTHER -> role

normalizeA2ARoleForCurrent(role) ==
  CASE role \in {"user", "ROLE_USER"} -> "ROLE_USER"
    [] role \in {"agent", "assistant", "ROLE_AGENT"} -> "ROLE_AGENT"
    [] role \in {"unspecified", "ROLE_UNSPECIFIED"} -> "ROLE_UNSPECIFIED"
    [] OTHER -> role

\* roleToProto and roleFromProto.  The role is compared in lower case, so the
\* upper case names of the cases are never met.
roleViaProto(role) == IF role \in {"agent", "assistant", "server"} THEN "agent" ELSE "user"

\* NormalizeA2ATaskState: the spellings of a state.
TaskStates ==
  [completed |-> {"completed", "complete", "success", "succeeded"}, canceled |-> {"canceled", "cancelled"},
   failed |-> {"failed", "failure", "error"}, unknown |-> {"unknown", "unspecified"},
   submitted |-> {"submitted"}, working |-> {"working"}, rejected |-> {"rejected"},
   input_required |-> {"input_required"}, auth_required |-> {"auth_required"}]

NormalizeA2ATaskState(state) ==
  IF \E s \in DOMAIN TaskStates : state \in TaskStates[s]
  THEN CHOOSE s \in DOMAIN TaskStates : state \in TaskStates[s] ELSE state

A2ATaskStateFailed(state) ==
  NormalizeA2ATaskState(state) \in {"failed", "canceled", "rejected", "input_required", "auth_required"}

\* taskStateToProto and taskStateFromProto.
stateViaProto(state) ==
  IF NormalizeA2ATaskState(state) \in DOMAIN TaskStates \ {"unknown"} THEN NormalizeA2ATaskState(state) ELSE ""

-----------------------------------------------------------------------------
(* Send configurations: "" is an option that is not set.                   *)

negated(option) == CASE option = "yes" -> "no" [] option = "no" -> "yes" [] OTHER -> ""

\* Mutant: the option is renamed and not negated.
renamedOnly(w) == IF w.returnImmediately # "" THEN [blocking |-> w.returnImmediately, returnImmediately |-> ""] ELSE w

\* NormalizeA2ASendConfigurationForDialect.
waitForLegacy(w) ==
  IF w.returnImmediately # "" THEN [blocking |-> negated(w.returnImmediately), returnImmediately |-> ""] ELSE w

waitForCurrent(w) ==
  IF w.blocking # "" THEN [blocking |-> "", returnImmediately |-> negated(w.blocking)] ELSE w

\* sendConfigurationToProto: blocking is not looked at.
waitViaProto(w) == [blocking |-> "", returnImmediately |-> IF w.returnImmediately = "yes" THEN "yes" ELSE "no"]

-----------------------------------------------------------------------------
(* Push configurations: the fields at the top and in the nested            *)
(* configuration.  url stands for the address and the token, auth for the  *)
(* authentication; no field is white space only.                           *)

Fields == {"url", "auth"}
blank(value) == value \in {"", " "}

\* pushConfigFromA2ATaskPushNotificationConfig.
pushConfigFrom(c) == [f \in Fields \cup {"id"} |-> IF c.nested[f] # "" THEN c.nested[f] ELSE c.top[f]]

NoPush == [f \in Fields \cup {"id"} |-> ""]

\* NormalizeA2ATaskPushNotificationConfigForDialect, for the current dialect.
pushForCurrent(c) == [top |-> pushConfigFrom(c), nested |-> NoPush]

trimmed(value) == IF blank(value) THEN "" ELSE value

mergeA2APushConfigFields(c) == [f \in Fields |-> trimmed(pushConfigFrom(c)[f])]

a2aPushConfigEmpty(cfg) == \A f \in Fields \cup {"id"} : blank(cfg[f])

\* MarshalJSON.
marshalPush(c) ==
  [top |-> "id" :> trimmed(c.top.id) @@ mergeA2APushConfigFields(c),
   nested |-> IF a2aPushConfigEmpty(c.nested) THEN NoPush ELSE c.nested]

\* UnmarshalJSON: the nested configuration takes what it lacks from the top.
unmarshalPush(c) == [c EXCEPT !.nested = pushConfigFrom(c)]

\* A push configuration is sent and received as JSON.
viaJSON(c) == unmarshalPush(marshalPush(c))

\* Mutant: only the top is carried.
topOnly(c) == [top |-> c.top, nested |-> c.top]

\* taskPushNotificationConfigToProto and taskPushConfigFromProto: the id is that
\* of the top only.
pushViaProto(c) ==
  LET top == [pushConfigFrom(c) EXCEPT !.id = c.top.id] IN
  [top |-> top, nested |-> pushConfigFrom([top |-> top, nested |-> NoPush])]

-----------------------------------------------------------------------------
(* The ids of a request about a push configuration: ID, TaskID,            *)
(* PushNotificationConfigID and PushNotificationConfig.ID.                 *)

\* a2aTaskIDFromPushParams.
a2aTaskIDFromPushParams(p) == IF ~blank(p.taskID) THEN p.taskID ELSE trimmed(p.id)

\* a2aPushConfigID, for the path of a REST request and for gRPC.
a2aPushConfigID(p) ==
  IF ~blank(p.configID) THEN p.configID
  ELSE IF ~blank(p.nestedID) THEN p.nestedID
  ELSE IF ~blank(p.taskID) THEN trimmed(p.id) ELSE ""

\* NormalizeA2ATaskPushConfigParamsForDialect, for the params of JSON-RPC.
paramsForCurrent(p) ==
  LET task == IF trimmed(p.taskID) = "" THEN trimmed(p.id) ELSE trimmed(p.taskID)
      given == IF trimmed(p.configID) = "" THEN trimmed(p.nestedID) ELSE trimmed(p.configID)
  IN [taskId |-> task, id |-> IF given = "" /\ trimmed(p.taskID) # "" THEN trimmed(p.id) ELSE given]

-----------------------------------------------------------------------------
(* The items.  Parts are well formed: a text, data, or a file with an      *)
(* address or bytes, under any of the spellings.                           *)

Tagged(kind, part) == {part, "kind" :> kind @@ part, "type" :> kind @@ part}

Bodies ==
  {"url" :> "u", "uri" :> "u", "url" :> "" @@ "uri" :> "u"}
    \cup {k :> <<e, "b">> : k \in {"raw", "fileWithBytes", "bytes"}, e \in {"std", "plain"}}

Files ==
  {b @@ n @@ m : b \in Bodies,
     n \in {Empty, "filename" :> "n", "fileName" :> "n", "name" :> "n"},
     m \in {Empty, "mediaType" :> "m", "mimeType" :> "m"}}

Parts ==
  Tagged("text", "text" :> "t") \cup Tagged("data", "data" :> "d")
    \cup UNION {Tagged("file", f) : f \in Files} \cup UNION {Tagged("file", "file" :> f) : f \in Files}

Ids == {"", " ", "a", "b"}

PushConfigs == [top : [Fields \cup {"id"} -> {"", "a", "b"}], nested : [Fields \cup {"id"} -> {"", "a", "b"}]]

Items ==
  [what : {"part"}, v : Parts]
    \cup [what : {"role"}, v : {"user", "agent", "assistant", "unspecified", "ROLE_USER", "ROLE_AGENT", "ROLE_UNSPECIFIED"}]
    \cup [what : {"state"}, v : UNION {TaskStates[s] : s \in DOMAIN TaskStates}]
    \cup [what : {"wait"}, v : {w \in [blocking : {"", "yes", "no"}, returnImmediately : {"", "yes", "no"}] :
                                  "" \in {w.blocking, w.returnImmediately}}]
    \cup [what : {"push"}, v : PushConfigs]
    \cup [what : {"params"}, v : [id : Ids, taskID : Ids, configID : Ids, nestedID : Ids]]

Init == item \in Items /\ origin = item /\ carried = FALSE /\ hops = 0

\* What a hop makes of an item; the conversions that send it do not change it
\* otherwise.
Converted(hop) ==
  CASE item.what = "part" -> (CASE hop = "current" -> normalizeA2APartForCurrent(item.v)
                                [] hop = "legacy" -> normalizeA2APartForLegacy(item.v)
                                [] hop = "grpc" -> partFromProto(partToProto(item.v)))
    [] item.what = "role" -> (CASE hop = "current" -> normalizeA2ARoleForCurrent(item.v)
                                [] hop = "legacy" -> normalizeA2ARoleForLegacy(item.v)
                                [] hop = "grpc" -> roleViaProto(item.v))
    [] item.what = "state" -> IF hop = "grpc" THEN stateViaProto(item.v) ELSE item.v
    [] item.what = "wait" -> (CASE hop = "current" -> waitForCurrent(item.v)
                                [] hop = "legacy" -> waitForLegacy(item.v)
                                [] hop = "grpc" -> waitViaProto(item.v))
    [] item.what = "push" -> (CASE hop = "current" -> viaJSON(pushForCurrent(item.v))
                                [] hop = "legacy" -> viaJSON(item.v)
                                [] hop = "grpc" -> pushViaProto(item.v))
    [] item.what = "params" -> item.v

Hop(hop) ==
  /\ hops < MaxHops
  /\ item' = [item EXCEPT !.v = Converted(hop)]
  /\ carried' = (carried \/ hop = "grpc")
  /\ hops' = hops + 1
  /\ UNCHANGED origin

Next == \E hop \in Hops : Hop(hop)

Spec == Init /\ [][Next]_vars

-----------------------------------------------------------------------------
\* The values a reader finds in a part under any spelling, in the nested file if
\* there is one.
Found(part, keys) ==
  LET source == IF "file" \in DOMAIN part THEN part["file"] ELSE part IN
  {source[k] : k \in {j \in keys \cap DOMAIN source : source[j] # ""}}

Body(part) ==
  [text |-> Found(part, {"text"}), data |-> Found(part, {"data"}), url |-> Found(part, {"url", "uri"}),
   bytes |-> {b[2] : b \in Found(part, {"raw", "fileWithBytes", "bytes"})}]

BodyIsKept == item.what = "part" => Body(item.v) = Body(origin.v)

FileNameIsKept ==
  item.what = "part" /\ a2aPartKind(origin.v) = "file" =>
    /\ Found(item.v, {"filename", "fileName", "name"}) = Found(origin.v, {"filename", "fileName", "name"})
    /\ Found(item.v, {"mediaType", "mimeType"}) = Found(origin.v, {"mediaType", "mimeType"})

AgentRole(role) == role \in {"agent", "assistant", "ROLE_AGENT"}
RoleIsKept == item.what = "role" => (AgentRole(item.v) <=> AgentRole(origin.v))

VerdictIsKept == item.what = "state" => (A2ATaskStateFailed(item.v) <=> A2ATaskStateFailed(origin.v))

Waits(w) == IF w.blocking # "" THEN w.blocking = "yes" ELSE w.returnImmediately # "yes"
WaitIsKept == item.what = "wait" => (Waits(item.v) <=> Waits(origin.v))

InForce(c, f) == IF c.nested[f] # "" THEN c.nested[f] ELSE c.top[f]
PushIsKept(fields) == item.what = "push" => \A f \in fields : InForce(item.v, f) = InForce(origin.v, f)

\* Any sequence of conversions between the dialects keeps what an item means,
\* in whatever spelling it came: the body, the name and the media type of a
\* part, whether a message is the agent's, whether the caller waits for the
\* task, and the id, the address and the authentication in force of a push
\* configuration (normalizeA2APartForCurrent, normalizeA2APartForLegacy,
\* normalizeA2ARoleForCurrent, normalizeA2ARoleForLegacy,
\* NormalizeA2ASendConfigurationForDialect,
\* NormalizeA2ATaskPushNotificationConfigForDialect, MarshalJSON, UnmarshalJSON).
DialectsKeepMeaning ==
  ~carried => BodyIsKept /\ FileNameIsKept /\ RoleIsKept /\ WaitIsKept /\ PushIsKept(Fields \cup {"id"})

\* With gRPC among the hops, the body of a part, the address and the
\* authentication of a push configuration, and whether a task failed are kept
\* (partToProto, partFromProto, taskPushNotificationConfigToProto,
\* taskPushConfigFromProto, taskStateToProto, A2ATaskStateRunStatus); and a
\* request about a push configuration names the same task and the same
\* configuration as JSON-RPC params, as a REST path and over gRPC
\* (NormalizeA2ATaskPushConfigParamsForDialect, a2aTaskIDFromPushParams,
\* a2aPushConfigID).
BindingsKeepMeaning ==
  /\ BodyIsKept /\ PushIsKept(Fields) /\ VerdictIsKept
  /\ item.what = "params" =>
       paramsForCurrent(item.v) = [taskId |-> a2aTaskIDFromPushParams(item.v), id |-> a2aPushConfigID(item.v)]
=============================================================================
