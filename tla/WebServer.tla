----------------------------- MODULE WebServer -----------------------------
(***************************************************************************)
(* The HTTP server (sw/src/webserver.cpp): one thread takes one connection *)
(* at a time, receives the request in whatever segments the network makes  *)
(* of it, changes the configuration or a file, and answers.  The processor *)
(* may stop between any two steps; the configuration in NVS and the files  *)
(* survive.                                                                *)
(*                                                                         *)
(* A request is counted in pieces: the request line with Content-Length,   *)
(* the rest of the headers, and the pieces of its body (a field of the     *)
(* configuration, a block of a file).  Requests that change nothing on the *)
(* device are one kind, "get".                                             *)
(***************************************************************************)
EXTENDS Naturals, Sequences

CONSTANTS
  ConfigBodies,  (* bodies of PUT /api/config: sequences of Setting         *)
  FileBodies,    (* bodies of PUT /api/files/<f>: sequences of Block        *)
  Block,         (* blocks of a file                                        *)
  Text, Number,  (* fields of AppConfig: strings; numbers and band switches *)
  Value,         (* what clients set fields to                              *)
  MaxRequest     (* pieces the request buffer has room for                  *)

Fields  == Text \cup Number
Setting == [field : Fields, value : Value]
Default == "default"
Zero    == "zero"           \* atoi of nothing, a switch not found "true"
None    == "none"
Config  == [Fields -> Value \cup {Default, Zero}]
Empty   == [f \in Fields |-> None]       \* NVS without a configuration

Distinct(b) == \A i, j \in 1..Len(b) : b[i].field = b[j].field => i = j

ASSUME BodiesAssumption ==
  /\ ConfigBodies \subseteq Seq(Setting) /\ FileBodies \subseteq Seq(Block)
  /\ \A b \in ConfigBodies : Distinct(b)
ASSUME ValueAssumption == Fields # {} /\ None \notin Value
ASSUME RequestAssumption == MaxRequest \in Nat /\ MaxRequest >= 2

VARIABLES
  pc,             (* where the server thread is                             *)
  request,        (* the request of this connection                         *)
  got, counted,   (* pieces received; pieces counted as body (curBodyLen)   *)
  cut,            (* of the piece after those received, a part has arrived  *)
  appConfig,      (* the configuration in memory                            *)
  mounted, nvs,   (* NVS is usable; the configuration in it                 *)
  saveFailed,     (* the last write to NVS failed                           *)
  exists, file,   (* there is the file; its blocks                          *)
  draft,          (* what the open file will hold when it is closed         *)
  writeFailed,    (* fs_write did not write all of the body                 *)
  answer          (* of the last request                                    *)

conn  == <<request, got, counted, cut>>
store == <<appConfig, mounted, nvs, saveFailed>>
disk  == <<exists, file, draft, writeFailed>>
vars  == <<pc, conn, store, disk, answer>>

Requests ==
  [op : {"putConfig"}, body : ConfigBodies] \cup [op : {"putFile"}, body : FileBodies]
  \cup [op : {"delete", "get"}, body : {<<>>}]

Defaults  == [f \in Fields |-> Default]
Total     == 2 + Len(request.body)
Received  == IF got < 2 THEN <<>> ELSE SubSeq(request.body, 1, got - 2)
Nobody    == [op |-> "get", body |-> <<>>]

Init ==
  /\ pc = "off" /\ request = Nobody /\ got = 0 /\ counted = 0 /\ cut = FALSE
  /\ appConfig = Defaults /\ mounted = FALSE /\ nvs = Empty /\ saveFailed = FALSE
  /\ exists = FALSE /\ file = <<>> /\ draft = <<>> /\ writeFailed = FALSE /\ answer = "none"

-----------------------------------------------------------------------------
(* Mutation of Loaded: what is kept is taken although the mount failed. *)
LoadedUnmounted(m) == IF nvs # Empty THEN nvs ELSE appConfig

(* loadConfigFromNVS: when NVS cannot be mounted or holds nothing the      *)
(* defaults stay.                                                          *)
Loaded(m) == IF m /\ nvs # Empty THEN nvs ELSE appConfig

(* init loads the configuration, start creates the socket and the thread.  *)
Start ==
  /\ pc = "off"
  /\ pc' = "accept"
  /\ mounted' \in BOOLEAN
  /\ appConfig' = Loaded(mounted')
  /\ UNCHANGED <<conn, nvs, saveFailed, disk, answer>>

(* Power fails: memory is lost, and what an open file was given. *)
PowerLoss ==
  /\ pc # "off"
  /\ pc' = "off"
  /\ request' = Nobody /\ got' = 0 /\ counted' = 0 /\ cut' = FALSE
  /\ appConfig' = Defaults /\ mounted' = FALSE /\ saveFailed' = FALSE
  /\ draft' = <<>> /\ writeFailed' = FALSE /\ answer' = "none"
  /\ UNCHANGED <<nvs, exists, file>>

-----------------------------------------------------------------------------
(* serverThreadFn: accept, receive, handle, close. *)

Accept ==
  /\ pc = "accept"
  /\ request' \in Requests
  /\ got' = 0 /\ counted' = 0 /\ cut' = FALSE /\ writeFailed' = FALSE
  /\ pc' = "recv"
  /\ UNCHANGED <<store, exists, file, draft, answer>>

Handler == CASE request.op = "putConfig" -> "apply"
             [] request.op = "putFile"   -> "open"
             [] request.op = "delete"    -> "unlink"
             [] request.op = "get"       -> "reply"

(* The request is handled as it is; a part of a further piece may be there. *)
HandleNow ==
  /\ pc' = Handler
  /\ cut' \in IF got' < Total THEN BOOLEAN ELSE {FALSE}

(* k more pieces arrive. *)
Segment(k) == /\ got + k <= Total /\ got + k <= MaxRequest
              /\ got' = got + k

(* The first recv.  A request with a body goes on until Content-Length is  *)
(* reached; what counts as body is what follows the blank line, if the     *)
(* blank line is there already.                                            *)
RecvFirst ==
  /\ pc = "recv"
  /\ \E k \in 1..MaxRequest : Segment(k)
  /\ counted' = IF got' < 2 THEN 0 ELSE got' - 2
  /\ IF counted' < Len(request.body) /\ got' < MaxRequest
     THEN pc' = "recvMore" /\ UNCHANGED cut
     ELSE HandleNow
  /\ UNCHANGED <<request, store, disk, answer>>

(* Nothing came: the connection is closed. *)
RecvNothing ==
  /\ pc = "recv"
  /\ pc' = "accept"
  /\ UNCHANGED <<conn, store, disk, answer>>

(* Mutation of RecvMore: the loop does not stop where the buffer is full. *)
RecvMoreBeyond ==
  /\ pc = "recvMore"
  /\ \E k \in 1..MaxRequest :
       got + k <= Total /\ got' = got + k /\ counted' = counted + k
  /\ IF counted' < Len(request.body) THEN UNCHANGED <<pc, cut>> ELSE HandleNow
  /\ UNCHANGED <<request, store, disk, answer>>

(* Whatever comes now is counted as body, the rest of the headers as well. *)
RecvMore ==
  /\ pc = "recvMore"
  /\ \E k \in 1..MaxRequest :
       /\ Segment(k)
       /\ counted' = counted + k
  /\ IF counted' < Len(request.body) /\ got' < MaxRequest
     THEN UNCHANGED <<pc, cut>>
     ELSE HandleNow
  /\ UNCHANGED <<request, store, disk, answer>>

(* Mutation of RecvBreak: no receive timeout; only a full request goes on. *)
RecvBreakNever ==
  /\ pc = "recvMore" /\ got = Total
  /\ UNCHANGED got
  /\ HandleNow
  /\ UNCHANGED <<request, counted, store, disk, answer>>

(* Two seconds without a byte, or the client is gone. *)
RecvBreak ==
  /\ pc = "recvMore"
  /\ UNCHANGED got
  /\ HandleNow
  /\ UNCHANGED <<request, counted, store, disk, answer>>

-----------------------------------------------------------------------------
(* What handleAPIConfigPut makes of field f: the value in the body; of a   *)
(* value that is cut off, nothing for a string and zero for a number.      *)
FieldAfter(f) ==
  LET b == Received
      c == IF cut /\ got >= 2 THEN request.body[Len(b) + 1].field ELSE None
  IN IF \E i \in 1..Len(b) : b[i].field = f
     THEN (CHOOSE s \in Setting : s.field = f /\ \E i \in 1..Len(b) : b[i] = s).value
     ELSE IF f = c /\ f \in Number THEN Zero ELSE appConfig[f]

(* Mutation of ConfigPut: answered without being saved. *)
ConfigPutUnsaved ==
  /\ pc = "apply"
  /\ appConfig' = [f \in Fields |-> FieldAfter(f)]
  /\ pc' = "reply"
  /\ UNCHANGED <<conn, mounted, nvs, saveFailed, disk, answer>>

ConfigPut ==
  /\ pc = "apply"
  /\ appConfig' = [f \in Fields |-> FieldAfter(f)]
  /\ pc' = "save"
  /\ UNCHANGED <<conn, mounted, nvs, saveFailed, disk, answer>>

SaveConfigToNVS ==
  /\ pc = "save"
  /\ \/ mounted /\ nvs' = appConfig /\ saveFailed' = FALSE
     \/ saveFailed' = TRUE /\ UNCHANGED nvs
  /\ pc' = "reply"
  /\ UNCHANGED <<conn, appConfig, mounted, disk, answer>>

(* handleAPIFilePut: the file is created but not emptied, the body written *)
(* over its beginning, and what fs_write returns is not looked at.         *)
FileOpen ==
  /\ pc = "open"
  /\ \/ pc' = "write" /\ exists' = TRUE /\ draft' = file /\ UNCHANGED answer
     \/ pc' = "accept" /\ answer' = "error" /\ UNCHANGED <<exists, draft>>
  /\ UNCHANGED <<conn, store, file, writeFailed>>

Over(new, old) == new \o SubSeq(old, Len(new) + 1, Len(old))

(* Mutation of FileWrite: the body is put after what is there. *)
FileWriteAppend ==
  /\ pc = "write"
  /\ \E n \in 0..Len(Received) :
       /\ draft' = draft \o SubSeq(Received, 1, n)
       /\ writeFailed' = (n < Len(Received))
  /\ pc' = "close"
  /\ UNCHANGED <<conn, store, exists, file, answer>>

FileWrite ==
  /\ pc = "write"
  /\ \E n \in 0..Len(Received) :
       /\ draft' = Over(SubSeq(Received, 1, n), draft)
       /\ writeFailed' = (n < Len(Received))
  /\ pc' = "close"
  /\ UNCHANGED <<conn, store, exists, file, answer>>

FileClose ==
  /\ pc = "close"
  /\ file' = draft /\ draft' = <<>>
  /\ pc' = "reply"
  /\ UNCHANGED <<conn, store, exists, writeFailed, answer>>

FileDelete ==
  /\ pc = "unlink"
  /\ IF exists
     THEN pc' = "reply" /\ exists' = FALSE /\ file' = <<>> /\ UNCHANGED answer
     ELSE pc' = "accept" /\ answer' = "error" /\ UNCHANGED <<exists, file>>
  /\ UNCHANGED <<conn, store, draft, writeFailed>>

Reply ==
  /\ pc = "reply" /\ request.op # "get"
  /\ answer' = "ok"
  /\ pc' = "accept"
  /\ UNCHANGED <<conn, store, disk>>

(* handleStatic and its like: header and content go out piece by piece; a  *)
(* send that fails ends it, a file that is missing is answered with 404.   *)
SendContent ==
  /\ pc = "reply" /\ request.op = "get"
  /\ answer' \in {"ok", "error"}
  /\ pc' = "accept"
  /\ UNCHANGED <<conn, store, disk>>

Server ==
  \/ RecvFirst \/ RecvNothing \/ RecvMore \/ RecvBreak
  \/ ConfigPut \/ SaveConfigToNVS
  \/ FileOpen \/ FileWrite \/ FileClose \/ FileDelete
  \/ Reply \/ SendContent

Next == Start \/ PowerLoss \/ Accept \/ Server

Spec == Init /\ [][Next]_vars

(* The receive timeout expires when the client is silent, and a client     *)
(* that is not is cut off by its own Content-Length or by the size of the  *)
(* buffer; the handlers run to their end.  Only sending may last for ever: *)
(* it has no timeout, and just the short answer to a PUT or a DELETE is    *)
(* taken to fit what the client will accept.                               *)
Handling ==
  \/ ConfigPut \/ SaveConfigToNVS
  \/ FileOpen \/ FileWrite \/ FileClose \/ FileDelete
  \/ Reply

FairSpec == Spec /\ WF_vars(RecvNothing) /\ WF_vars(RecvBreak) /\ WF_vars(Handling)
-----------------------------------------------------------------------------
(* The shape of every state. *)
TypeOK ==
  /\ pc \in {"off", "accept", "recv", "recvMore", "apply", "save", "open", "write", "close",
             "unlink", "reply"}
  /\ request \in Requests \cup {Nobody}
  /\ got \in 0..Total /\ got <= MaxRequest /\ counted \in 0..MaxRequest /\ cut \in BOOLEAN
  /\ appConfig \in Config /\ mounted \in BOOLEAN /\ nvs \in Config \cup {Empty}
  /\ saveFailed \in BOOLEAN
  /\ exists \in BOOLEAN /\ file \in Seq(Block) /\ draft \in Seq(Block)
  /\ (~exists => file = <<>>) /\ writeFailed \in BOOLEAN
  /\ answer \in {"none", "ok", "error"}

(* To its clients the server is the ConfigStore: a change of appConfig is   *)
(* followed by an attempt to write it to NVS before anything is answered,  *)
(* wherever requests break off and power fails, and nothing but a start    *)
(* puts the configuration in NVS into use.                                 *)
Store == INSTANCE ConfigStore WITH
  Defaults <- Defaults,
  Nothing  <- Empty,
  phase    <- CASE pc = "off" -> "off" [] pc = "save" -> "changed" [] OTHER -> "idle",
  mem      <- appConfig,
  usable   <- mounted,
  kept     <- nvs,
  failed   <- saveFailed

ImplementsStore == Store!StoreSpec

(* Whenever it may answer a request, the configuration in use is the one   *)
(* that the next start will load, unless NVS failed: whatever was cut off, *)
(* and wherever power was lost before.                                     *)
ConfigDurable == Store!Durable

(* What was received of a file, if it was written without an error, is at  *)
(* the beginning of the file, whatever the file held before, and wherever  *)
(* the segments and the end of the headers fell.                           *)
FileBeginsWithReceived ==
  pc = "reply" /\ request.op = "putFile" /\ ~writeFailed =>
    Len(file) >= Len(Received) /\ SubSeq(file, 1, Len(Received)) = Received

(* Wherever a client that changes something stops sending, the server      *)
(* comes back to accept.                                                   *)
ServerReturns ==
  (pc # "off" /\ request.op # "get") ~> (pc \in {"accept", "off"})
=============================================================================
