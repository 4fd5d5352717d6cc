-------------------------- MODULE WebServerProofs --------------------------
(***************************************************************************)
(* The web server implements the ConfigStore, for all bodies, fields,      *)
(* values and sizes of the request buffer, and so its configuration is     *)
(* durable.                                                                *)
(***************************************************************************)
EXTENDS WebServer, SequenceTheorems, TLAPS

Places == {"off", "accept", "recv", "recvMore", "apply", "save", "open", "write", "close",
           "unlink", "reply"}

(* What the refinement rests on: types, that only a PUT of a configuration *)
(* comes to be applied, and that without power the defaults are in place.  *)
Shape ==
  /\ pc \in Places
  /\ request \in Requests \cup {Nobody}
  /\ pc = "apply" => request \in [op : {"putConfig"}, body : ConfigBodies]
  /\ got \in Nat /\ got <= Total
  /\ appConfig \in Config /\ mounted \in BOOLEAN
  /\ nvs \in Config \cup {Empty} /\ saveFailed \in BOOLEAN
  /\ pc = "off" => appConfig = Defaults

(* A request has one of four operations, and its body is a sequence. *)
LEMMA RequestShape ==
  ASSUME NEW r \in Requests \cup {Nobody}
  PROVE  /\ r.op \in {"putConfig", "putFile", "delete", "get"}
         /\ r.body \in Seq(Setting \cup Block)
         /\ r.op = "putConfig" => r \in [op : {"putConfig"}, body : ConfigBodies]
<1>1. ConfigBodies \subseteq Seq(Setting \cup Block) /\ FileBodies \subseteq Seq(Setting \cup Block)
  BY BodiesAssumption
<1>2. <<>> \in Seq(Setting \cup Block)
  OBVIOUS
<1>3. CASE r \in [op : {"putConfig"}, body : ConfigBodies]
  BY <1>1, <1>3
<1>4. CASE r \in [op : {"putFile"}, body : FileBodies]
  BY <1>1, <1>4
<1>5. CASE r \in [op : {"delete", "get"}, body : {<<>>}]
  BY <1>2, <1>5
<1>6. CASE r = Nobody
  BY <1>2, <1>6 DEF Nobody
<1>7. QED
  BY <1>3, <1>4, <1>5, <1>6 DEF Requests

(* Handling begins at the handler of the operation. *)
LEMMA HandlerPlaces ==
  ASSUME request \in Requests \cup {Nobody}
  PROVE  /\ Handler \in {"apply", "open", "unlink", "reply"}
         /\ Handler = "apply" => request \in [op : {"putConfig"}, body : ConfigBodies]
<1>1. request.op \in {"putConfig", "putFile", "delete", "get"}
  BY RequestShape
<1>2. request.op = "putConfig" => request \in [op : {"putConfig"}, body : ConfigBodies]
  BY RequestShape
<1>3. QED
  BY <1>1, <1>2 DEF Handler

(* What a PUT makes of a field is a value the field may have. *)
LEMMA FieldAfterType ==
  ASSUME Shape, pc = "apply", NEW f \in Fields
  PROVE  FieldAfter(f) \in Value \cup {Default, Zero}
<1> DEFINE b == Received
<1>1. request.body \in Seq(Setting) /\ Total = 2 + Len(request.body)
  BY BodiesAssumption DEF Shape, Total
<1>2. b \in Seq(Setting)
  <2>1. CASE got < 2
    BY <2>1 DEF Received
  <2>2. CASE got >= 2
    <3>1. got - 2 \in Nat /\ got - 2 <= Len(request.body)
      BY <1>1, <2>2 DEF Shape
    <3>2. SubSeq(request.body, 1, got - 2) \in Seq(Setting)
      BY <1>1, <3>1, SubSeqProperties
    <3>3. QED
      BY <2>2, <3>2 DEF Received, Shape
  <2>3. QED
    BY <2>1, <2>2 DEF Shape
<1>3. CASE \E i \in 1..Len(b) : b[i].field = f
  <2>1. PICK i \in 1..Len(b) : b[i].field = f
    BY <1>3
  <2>2. b[i] \in Setting
    BY <1>2
  <2>3. \E s \in Setting : s.field = f /\ \E j \in 1..Len(b) : b[j] = s
    BY <2>1, <2>2
  <2> DEFINE t == CHOOSE s \in Setting : s.field = f /\ \E j \in 1..Len(b) : b[j] = s
  <2>4. t \in Setting
    BY <2>3
  <2>5. t.value \in Value
    BY <2>4 DEF Setting
  <2>6. FieldAfter(f) = t.value
    BY <1>3 DEF FieldAfter
  <2>7. QED
    BY <2>5, <2>6
<1>4. CASE ~\E i \in 1..Len(b) : b[i].field = f
  <2>1. FieldAfter(f) \in {Zero, appConfig[f]}
    BY <1>4 DEF FieldAfter
  <2>2. appConfig[f] \in Value \cup {Default, Zero}
    BY DEF Shape, Config
  <2>3. QED
    BY <2>1, <2>2
<1>5. QED
  BY <1>3, <1>4

-----------------------------------------------------------------------------
(* A PUT, a start and an attempt to save keep the shape; all other steps   *)
(* leave the configuration alone.                                          *)
LEMMA ShapeInit == Init => Shape
<1> SUFFICES ASSUME Init PROVE Shape
  OBVIOUS
<1>1. Defaults \in Config
  BY DEF Defaults, Config
<1>2. Total = 2
  BY DEF Init, Total, Nobody
<1>3. got \in Nat /\ got <= Total
  BY <1>2 DEF Init
<1>4. pc \in Places /\ pc # "apply" /\ mounted \in BOOLEAN /\ saveFailed \in BOOLEAN
  BY DEF Init, Places
<1>5. QED
  BY <1>1, <1>3, <1>4 DEF Init, Shape

LEMMA ReceivingKeepsShape ==
  Shape /\ (RecvFirst \/ RecvMore \/ RecvBreak) => Shape'
<1> SUFFICES ASSUME Shape, RecvFirst \/ RecvMore \/ RecvBreak PROVE Shape'
  OBVIOUS
<1>1. request' = request /\ Total' = Total /\ UNCHANGED store
  BY DEF RecvFirst, RecvMore, RecvBreak, Total
<1>2. request \in Requests \cup {Nobody}
  BY DEF Shape
<1>3. got' \in Nat /\ got' <= Total'
  BY <1>1 DEF Shape, RecvFirst, RecvMore, RecvBreak, Segment
<1>4. pc' = Handler \/ pc' \in {"recvMore", pc}
  BY DEF RecvFirst, RecvMore, RecvBreak, HandleNow
<1>5. pc \in {"recv", "recvMore"}
  BY DEF RecvFirst, RecvMore, RecvBreak
<1>6. /\ pc' \in Places \ {"off"}
      /\ pc' = "apply" => request' \in [op : {"putConfig"}, body : ConfigBodies]
  BY <1>1, <1>2, <1>4, <1>5, HandlerPlaces DEF Places
<1>7. QED
  BY <1>1, <1>2, <1>3, <1>6 DEF Shape, store

LEMMA ShapeNext == Shape /\ [Next]_vars => Shape'
<1> SUFFICES ASSUME Shape, [Next]_vars PROVE Shape'
  OBVIOUS
<1>1. CASE Start
  <2>1. appConfig' \in Config
    BY <1>1 DEF Start, Loaded, Shape
  <2>2. Total' = Total
    BY <1>1 DEF Start, conn, Total
  <2>3. QED
    BY <1>1, <2>1, <2>2 DEF Start, Shape, conn, Places
<1>2. CASE PowerLoss
  <2>1. Defaults \in Config /\ Defaults' = Defaults
    BY DEF Defaults, Config
  <2>2. Total' = 2
    BY <1>2 DEF PowerLoss, Total, Nobody
  <2>3. request' \in Requests \cup {Nobody} /\ Nobody' = Nobody
    BY <1>2 DEF PowerLoss, Nobody
  <2>4. got' \in Nat /\ got' <= Total'
    BY <1>2, <2>2 DEF PowerLoss
  <2>5. /\ pc' \in Places /\ pc' # "apply" /\ appConfig' = Defaults /\ nvs' = nvs
        /\ mounted' \in BOOLEAN /\ saveFailed' \in BOOLEAN
    BY <1>2 DEF PowerLoss, Places
  <2>6. QED
    BY <2>1, <2>3, <2>4, <2>5 DEF Shape
<1>3. CASE Accept
  <2>1. Total' \in Nat
    <3>1. request' \in Requests
      BY <1>3 DEF Accept
    <3>2. request'.body \in Seq(Setting \cup Block)
      BY <3>1, RequestShape
    <3>3. QED
      BY <3>2 DEF Total
  <2>2. QED
    BY <1>3, <2>1 DEF Accept, Shape, store, Places
<1>4. CASE RecvFirst \/ RecvMore \/ RecvBreak
  BY <1>4, ReceivingKeepsShape
<1>5. CASE ConfigPut
  <2>1. appConfig' \in Config
    BY <1>5, FieldAfterType DEF ConfigPut, Config
  <2>2. Total' = Total
    BY <1>5 DEF ConfigPut, conn, Total
  <2>3. QED
    BY <1>5, <2>1, <2>2 DEF ConfigPut, Shape, conn, Places
<1>6. CASE SaveConfigToNVS
  <2>1. Total' = Total
    BY <1>6 DEF SaveConfigToNVS, conn, Total
  <2>2. QED
    BY <1>6, <2>1 DEF SaveConfigToNVS, Shape, conn, Places
<1>7. CASE RecvNothing \/ FileOpen \/ FileWrite \/ FileClose \/ FileDelete \/ Reply \/ SendContent
  <2>1. UNCHANGED <<conn, store>> /\ pc' \in Places \ {"off", "apply"}
    BY <1>7 DEF RecvNothing, FileOpen, FileWrite, FileClose, FileDelete, Reply, SendContent, Places
  <2>2. Total' = Total
    BY <2>1 DEF conn, Total
  <2>3. QED
    BY <2>1, <2>2 DEF Shape, conn, store
<1>8. CASE UNCHANGED vars
  <2>1. Total' = Total
    BY <1>8 DEF vars, conn, Total
  <2>2. QED
    BY <1>8, <2>1 DEF Shape, vars, conn, store
<1>9. QED
  BY <1>1, <1>2, <1>3, <1>4, <1>5, <1>6, <1>7, <1>8 DEF Next, Server

-----------------------------------------------------------------------------
Phase == CASE pc = "off" -> "off" [] pc = "save" -> "changed" [] OTHER -> "idle"

(* The phase of the store says no more than where the server is. *)
LEMMA PhaseOf ==
  /\ pc = "off" => Phase = "off"
  /\ pc = "save" => Phase = "changed"
  /\ pc \notin {"off", "save"} => Phase = "idle"
BY DEF Phase

(* A server that was just built is a store that was just built. *)
LEMMA StoreInits == Init => Store!StoreInit
BY DEF Init, Store!StoreInit

(* Each step of the server is a step of the store, or none. *)
LEMMA StoreSteps == Shape /\ [Next]_vars => [Store!StoreNext]_(Store!storeVars)
<1> SUFFICES ASSUME Shape, [Next]_vars PROVE Store!StoreNext \/ UNCHANGED Store!storeVars
  OBVIOUS
<1>1. CASE Start
  <2>1. Store!Boot
    BY <1>1 DEF Start, Loaded, Shape, Store!Boot
  <2>2. QED
    BY <2>1 DEF Store!StoreNext
<1>2. CASE PowerLoss
  <2>1. Store!Fail
    BY <1>2 DEF PowerLoss, Store!Fail
  <2>2. QED
    BY <2>1 DEF Store!StoreNext
<1>3. CASE ConfigPut
  <2>1. appConfig' \in Config
    BY <1>3, FieldAfterType DEF ConfigPut, Config
  <2>2. Store!Change(appConfig')
    BY <1>3 DEF ConfigPut, Store!Change
  <2>3. QED
    BY <2>1, <2>2 DEF Store!StoreNext
<1>4. CASE SaveConfigToNVS
  <2>1. Store!Keep
    BY <1>4 DEF SaveConfigToNVS, Store!Keep
  <2>2. QED
    BY <2>1 DEF Store!StoreNext
<1>5. CASE \/ Accept \/ RecvFirst \/ RecvMore \/ RecvBreak \/ RecvNothing \/ FileOpen \/ FileWrite
           \/ FileClose \/ FileDelete \/ Reply \/ SendContent
  <2>1. UNCHANGED store
    BY <1>5 DEF Accept, RecvFirst, RecvMore, RecvBreak, RecvNothing, FileOpen, FileWrite,
                FileClose, FileDelete, Reply, SendContent
  <2>2. pc \notin {"off", "save"}
    BY <1>5 DEF Accept, RecvFirst, RecvMore, RecvBreak, RecvNothing, FileOpen, FileWrite,
                FileClose, FileDelete, Reply, SendContent
  <2>3. pc' = Handler \/ pc' \in Places \ {"off", "save"}
    BY <1>5, <2>2 DEF Accept, RecvFirst, RecvMore, RecvBreak, RecvNothing, FileOpen, FileWrite,
                FileClose, FileDelete, Reply, SendContent, HandleNow, Places, Shape
  <2>4. pc' \notin {"off", "save"}
    BY <2>3, HandlerPlaces DEF Shape
  <2>5. QED
    BY <2>1, <2>2, <2>4 DEF Store!storeVars, store
<1>6. CASE UNCHANGED vars
  BY <1>6 DEF vars, store, Store!storeVars
<1>7. QED
  BY <1>1, <1>2, <1>3, <1>4, <1>5, <1>6 DEF Next, Server

(* The web server is a ConfigStore: a change is followed by the attempt to *)
(* keep it before anything else is done, and only a start brings what is   *)
(* kept into use.                                                          *)
THEOREM ServerImplementsStore == Spec => ImplementsStore
<1>1. Shape /\ [Next]_vars => Shape'
  BY ShapeNext
<1>2. Init => Shape
  BY ShapeInit
<1>3. Spec => []Shape
  BY <1>1, <1>2, PTL DEF Spec
<1>4. QED
  BY <1>3, StoreInits, StoreSteps, PTL DEF Spec, ImplementsStore, Store!StoreSpec

(* A step of the store keeps it durable, as long as what it holds is a     *)
(* configuration.                                                          *)
LEMMA StoreKeepsDurable ==
  ASSUME Shape, Shape', Store!Durable, [Store!StoreNext]_(Store!storeVars)
  PROVE  Store!Durable'
<1>1. Empty \notin Config
  <2>1. PICK f \in Fields : TRUE
    BY ValueAssumption
  <2>2. Empty[f] = None /\ None \notin Value \cup {Default, Zero}
    BY ValueAssumption DEF Empty, None, Default, Zero
  <2>3. QED
    BY <2>1, <2>2 DEF Config
<1>2. CASE Store!Boot
  BY <1>2 DEF Store!Boot, Store!Durable
<1>3. CASE Store!Fail
  BY <1>3 DEF Store!Fail, Store!Durable
<1>4. CASE Store!Keep
  BY <1>1, <1>4 DEF Store!Keep, Store!Durable, Shape
<1>5. ASSUME NEW c \in Config, Store!Change(c) PROVE Store!Durable'
  BY <1>5 DEF Store!Change, Store!Durable
<1>6. CASE UNCHANGED Store!storeVars
  BY <1>6 DEF Store!storeVars, Store!Durable
<1>7. QED
  BY <1>2, <1>3, <1>4, <1>5, <1>6 DEF Store!StoreNext

(* In every state in which the server may answer, the configuration in use *)
(* is the one the next start loads, unless the memory refused it.          *)
THEOREM ConfigIsDurable == Spec => []ConfigDurable
<1>1. Init => Shape /\ Store!Durable
  BY ShapeInit DEF Init, Store!Durable
<1>2. (Shape /\ Store!Durable) /\ [Next]_vars => (Shape /\ Store!Durable)'
  BY ShapeNext, StoreSteps, StoreKeepsDurable
<1>3. QED
  BY <1>1, <1>2, PTL DEF Spec, ConfigDurable
-----------------------------------------------------------------------------
(* Where a handler is, its request is; a file that is being written is     *)
(* there; what is counted as body has been received; and what was received *)
(* of the body is at the beginning of what was written without an error.   *)
Begins(content) ==
  Len(content) >= Len(Received) /\ SubSeq(content, 1, Len(Received)) = Received

Handlers ==
  /\ pc \in {"apply", "save"} => request.op = "putConfig"
  /\ pc \in {"open", "write", "close"} => request.op = "putFile"
  /\ pc = "unlink" => request.op = "delete"

Counts ==
  /\ got <= MaxRequest /\ counted \in Nat /\ counted <= got /\ cut \in BOOLEAN
  /\ writeFailed \in BOOLEAN /\ answer \in {"none", "ok", "error"}

Files ==
  /\ exists \in BOOLEAN /\ file \in Seq(Block) /\ draft \in Seq(Block)
  /\ ~exists => file = <<>>
  /\ pc \in {"write", "close"} => exists

Written ==
  /\ pc = "close" /\ ~writeFailed => Begins(draft)
  /\ pc = "reply" /\ request.op = "putFile" /\ ~writeFailed => Begins(file)

SInv == Shape /\ Handlers /\ Counts /\ Files /\ Written

(* A body written over a file begins the file. *)
LEMMA OverBegins ==
  ASSUME NEW B, NEW new \in Seq(B), NEW old \in Seq(B)
  PROVE  /\ Over(new, old) \in Seq(B)
         /\ Len(Over(new, old)) >= Len(new)
         /\ SubSeq(Over(new, old), 1, Len(new)) = new
<1> DEFINE rest == SubSeq(old, Len(new) + 1, Len(old))
<1>1. rest \in Seq(B)
  <2>1. CASE Len(new) + 1 <= Len(old)
    BY <2>1, SubSeqProperties
  <2>2. CASE ~(Len(new) + 1 <= Len(old))
    BY <2>2, SubSeqProperties
  <2>3. QED
    BY <2>1, <2>2
<1> HIDE DEF rest
<1>2. /\ new \o rest \in Seq(B) /\ Len(new \o rest) = Len(new) + Len(rest)
      /\ \A k \in 1..Len(new) : (new \o rest)[k] = new[k]
  BY <1>1
<1>3. Len(new) \in Nat /\ Len(rest) \in Nat
  BY <1>1
<1>4. /\ SubSeq(new \o rest, 1, Len(new)) \in Seq(B)
      /\ Len(SubSeq(new \o rest, 1, Len(new))) = Len(new)
      /\ \A k \in 1..Len(new) : SubSeq(new \o rest, 1, Len(new))[k] = (new \o rest)[k]
  BY <1>2, <1>3, SubSeqProperties
<1>5. SubSeq(new \o rest, 1, Len(new)) = new
  BY <1>2, <1>4, SeqEqual
<1>6. QED
  BY <1>2, <1>3, <1>5 DEF Over, rest

(* What is received of a file is blocks. *)
LEMMA ReceivedType ==
  ASSUME Shape, request.op = "putFile"
  PROVE  Received \in Seq(Block)
<1>1. request \in [op : {"putFile"}, body : FileBodies]
  BY DEF Shape, Requests, Nobody
<1>2. request.body \in Seq(Block) /\ Total = 2 + Len(request.body)
  BY <1>1, BodiesAssumption DEF Total
<1>3. CASE got < 2
  BY <1>3 DEF Received
<1>4. CASE got >= 2
  <2>1. got - 2 \in Nat /\ got - 2 <= Len(request.body)
    BY <1>2, <1>4 DEF Shape
  <2>2. SubSeq(request.body, 1, got - 2) \in Seq(Block)
    BY <1>2, <2>1, SubSeqProperties
  <2>3. QED
    BY <1>4, <2>2 DEF Received, Shape
<1>5. QED
  BY <1>3, <1>4 DEF Shape

(* Each step keeps the handler with its request. *)
LEMMA HandlersNext == Shape /\ Handlers /\ [Next]_vars => Handlers'
<1> SUFFICES ASSUME Shape, Handlers, [Next]_vars PROVE Handlers'
  OBVIOUS
<1>h. /\ Handler = "apply" => request.op = "putConfig"
      /\ Handler = "open" => request.op = "putFile"
      /\ Handler = "unlink" => request.op = "delete"
      /\ Handler \in {"apply", "open", "unlink", "reply"}
  <2>1. request.op \in {"putConfig", "putFile", "delete", "get"}
    BY RequestShape DEF Shape
  <2>2. QED
    BY <2>1 DEF Handler
<1>1. CASE RecvFirst \/ RecvMore \/ RecvBreak
  <2>1. pc' = Handler \/ pc' = "recvMore"
    BY <1>1 DEF RecvFirst, RecvMore, RecvBreak, HandleNow
  <2>2. request' = request
    BY <1>1 DEF RecvFirst, RecvMore, RecvBreak
  <2>3. QED
    BY <1>h, <2>1, <2>2 DEF Handlers
<1>2. CASE Start \/ PowerLoss \/ Accept \/ RecvNothing
  BY <1>2 DEF Start, PowerLoss, Accept, RecvNothing, Handlers
<1>3. CASE ConfigPut \/ SaveConfigToNVS
  BY <1>3 DEF ConfigPut, SaveConfigToNVS, Handlers, conn
<1>4. CASE FileOpen \/ FileWrite \/ FileClose \/ FileDelete
  BY <1>4 DEF FileOpen, FileWrite, FileClose, FileDelete, Handlers, conn
<1>5. CASE Reply \/ SendContent
  BY <1>5 DEF Reply, SendContent, Handlers
<1>6. CASE UNCHANGED vars
  BY <1>6 DEF vars, conn, Handlers
<1>7. QED
  BY <1>1, <1>2, <1>3, <1>4, <1>5, <1>6 DEF Next, Server

(* Nothing is received beyond the buffer, nor counted that is not there. *)
LEMMA CountsNext == Shape /\ Counts /\ [Next]_vars => Counts'
<1> SUFFICES ASSUME Shape, Counts, [Next]_vars PROVE Counts'
  OBVIOUS
<1> USE RequestAssumption
<1>g. got \in Nat /\ counted \in Nat
  BY DEF Shape, Counts
<1>1. CASE RecvFirst \/ RecvMore \/ RecvBreak
  <2>1. cut' \in BOOLEAN /\ UNCHANGED <<writeFailed, answer>>
    BY <1>1 DEF RecvFirst, RecvMore, RecvBreak, HandleNow, disk, Counts
  <2>2. got' <= MaxRequest /\ counted' \in Nat /\ counted' <= got'
    <3>1. CASE RecvFirst
      BY <1>g, <3>1 DEF RecvFirst, Segment, Counts
    <3>2. CASE RecvMore
      BY <1>g, <3>2 DEF RecvMore, Segment, Counts
    <3>3. CASE RecvBreak
      BY <1>g, <3>3 DEF RecvBreak, Counts
    <3>4. QED
      BY <1>1, <3>1, <3>2, <3>3
  <2>3. QED
    BY <2>1, <2>2 DEF Counts
<1>2. CASE PowerLoss \/ Accept
  <2>1. got' = 0 /\ counted' = 0
    BY <1>2 DEF PowerLoss, Accept
  <2>2. cut' = FALSE /\ writeFailed' = FALSE /\ answer' \in {answer, "none"}
    BY <1>2 DEF PowerLoss, Accept
  <2>3. got' <= MaxRequest /\ counted' \in Nat /\ counted' <= got'
    BY <2>1
  <2>4. cut' \in BOOLEAN /\ writeFailed' \in BOOLEAN
    BY <2>2
  <2>5. answer' \in {"none", "ok", "error"}
    BY <2>2 DEF Counts
  <2>6. QED
    BY <2>3, <2>4, <2>5 DEF Counts
<1>3. CASE FileWrite
  BY <1>3 DEF FileWrite, conn, Counts
<1>4. CASE \/ Start \/ RecvNothing \/ ConfigPut \/ SaveConfigToNVS \/ FileOpen \/ FileClose
           \/ FileDelete \/ Reply \/ SendContent \/ UNCHANGED vars
  <2>1. UNCHANGED <<conn, writeFailed>> /\ answer' \in {answer, "ok", "error"}
    BY <1>4 DEF Start, RecvNothing, ConfigPut, SaveConfigToNVS, FileOpen, FileClose, FileDelete,
                Reply, SendContent, vars, disk
  <2>2. QED
    BY <2>1 DEF Counts, conn
<1>5. QED
  BY <1>1, <1>2, <1>3, <1>4 DEF Next, Server

(* Only a file that is there has blocks, and blocks are all it has. *)
LEMMA FilesNext == Shape /\ Handlers /\ Files /\ [Next]_vars => Files'
<1> SUFFICES ASSUME Shape, Handlers, Files, [Next]_vars PROVE Files'
  OBVIOUS
<1>1. CASE FileWrite
  <2>1. PICK n \in 0..Len(Received) : draft' = Over(SubSeq(Received, 1, n), draft)
    BY <1>1 DEF FileWrite
  <2>2. Received \in Seq(Block)
    BY <1>1, ReceivedType DEF FileWrite, Handlers
  <2>3. SubSeq(Received, 1, n) \in Seq(Block)
    BY <2>2, SubSeqProperties
  <2>4. draft' \in Seq(Block)
    BY <2>1, <2>3, OverBegins DEF Files
  <2>5. QED
    BY <1>1, <2>4 DEF FileWrite, Files
<1>2. CASE FileOpen \/ FileClose \/ FileDelete
  <2>1. CASE FileOpen
    BY <2>1 DEF FileOpen, Files
  <2>2. CASE FileClose
    BY <2>2 DEF FileClose, Files
  <2>3. CASE FileDelete
    <3>1. exists' \in BOOLEAN /\ (~exists' => file' = <<>>) /\ pc' \in {"reply", "accept"}
      BY <2>3 DEF FileDelete, Files
    <3>2. file' \in {file, <<>>} /\ draft' = draft
      BY <2>3 DEF FileDelete
    <3>3. file' \in Seq(Block) /\ draft' \in Seq(Block)
      <4>1. <<>> \in Seq(Block) /\ file \in Seq(Block) /\ draft \in Seq(Block)
        BY DEF Files
      <4>2. QED
        BY <3>2, <4>1
    <3>4. pc' \notin {"write", "close"}
      BY <3>1
    <3>5. QED
      BY <3>1, <3>3, <3>4 DEF Files
  <2>4. QED
    BY <1>2, <2>1, <2>2, <2>3
<1>3. CASE PowerLoss
  BY <1>3 DEF PowerLoss, Files
<1>4. CASE RecvFirst \/ RecvMore \/ RecvBreak
  <2>1. pc' = Handler \/ pc' = "recvMore"
    BY <1>4 DEF RecvFirst, RecvMore, RecvBreak, HandleNow
  <2>2. pc' \notin {"write", "close"}
    BY <2>1, HandlerPlaces DEF Shape
  <2>3. UNCHANGED disk
    BY <1>4 DEF RecvFirst, RecvMore, RecvBreak
  <2>4. QED
    BY <2>2, <2>3 DEF disk, Files
<1>5. CASE Start \/ Accept \/ RecvNothing \/ ConfigPut \/ SaveConfigToNVS \/ Reply \/ SendContent
  BY <1>5 DEF Start, Accept, RecvNothing, ConfigPut, SaveConfigToNVS, Reply, SendContent, disk, Files
<1>6. CASE UNCHANGED vars
  BY <1>6 DEF vars, disk, Files
<1>7. QED
  BY <1>1, <1>2, <1>3, <1>4, <1>5, <1>6 DEF Next, Server

(* What is written without an error is all that was received. *)
LEMMA WrittenNext == Shape /\ Handlers /\ Files /\ Written /\ [Next]_vars => Written'
<1> SUFFICES ASSUME Shape, Handlers, Files, Written, [Next]_vars PROVE Written'
  OBVIOUS
<1>r. UNCHANGED conn => Received' = Received /\ request' = request
  BY DEF conn, Received
<1>1. CASE FileWrite
  <2>1. PICK n \in 0..Len(Received) : /\ draft' = Over(SubSeq(Received, 1, n), draft)
                                      /\ writeFailed' = (n < Len(Received))
    BY <1>1 DEF FileWrite
  <2>2. Received \in Seq(Block)
    BY <1>1, ReceivedType DEF FileWrite, Handlers
  <2>3. CASE n < Len(Received)
    BY <1>1, <2>1, <2>3 DEF FileWrite, Written
  <2>4. CASE ~(n < Len(Received))
    <3>1. n = Len(Received) /\ Len(Received) \in Nat
      BY <2>2, <2>4
    <3>2. SubSeq(Received, 1, n) = Received
      BY <2>2, <3>1, SubSeqFull
    <3>3. Begins(draft)'
      BY <1>1, <1>r, <2>1, <2>2, <3>2, OverBegins DEF FileWrite, Begins, Files
    <3>4. QED
      BY <1>1, <3>3 DEF FileWrite, Written
  <2>5. QED
    BY <2>3, <2>4
<1>2. CASE FileClose
  <2>1. /\ pc = "close" /\ pc' = "reply" /\ file' = draft
        /\ UNCHANGED <<request, got, writeFailed>>
    BY <1>2 DEF FileClose, conn
  <2>2. Begins(draft) => Begins(file)'
    BY <1>2, <1>r, <2>1 DEF Begins, FileClose
  <2>3. QED
    BY <2>1, <2>2 DEF Written
<1>3. CASE FileOpen \/ FileDelete \/ ConfigPut \/ SaveConfigToNVS
  BY <1>3 DEF FileOpen, FileDelete, ConfigPut, SaveConfigToNVS, Handlers, Written, conn
<1>4. CASE RecvFirst \/ RecvMore \/ RecvBreak
  <2>1. pc' = Handler \/ pc' = "recvMore"
    BY <1>4 DEF RecvFirst, RecvMore, RecvBreak, HandleNow
  <2>2. Handler \in {"apply", "open", "unlink", "reply"} /\ (Handler = "reply" => request.op = "get")
    BY RequestShape DEF Shape, Handler
  <2>3. request' = request
    BY <1>4 DEF RecvFirst, RecvMore, RecvBreak
  <2>4. QED
    BY <2>1, <2>2, <2>3 DEF Written
<1>5. CASE Start \/ PowerLoss \/ Accept \/ RecvNothing \/ Reply \/ SendContent
  BY <1>5 DEF Start, PowerLoss, Accept, RecvNothing, Reply, SendContent, Written
<1>6. CASE UNCHANGED vars
  BY <1>6, <1>r DEF vars, disk, conn, Written, Begins
<1>7. QED
  BY <1>1, <1>2, <1>3, <1>4, <1>5, <1>6 DEF Next, Server

LEMMA SInvHolds == Spec => []SInv
<1>1. Init => SInv
  <2>1. Init => Shape
    BY ShapeInit
  <2>2. Init => Handlers /\ Written
    BY DEF Init, Handlers, Written
  <2>3. Init => Counts
    <3> SUFFICES ASSUME Init PROVE Counts
      OBVIOUS
    <3>1. got <= MaxRequest /\ counted \in Nat /\ counted <= got
      BY RequestAssumption DEF Init
    <3>2. cut \in BOOLEAN /\ writeFailed \in BOOLEAN
      BY DEF Init
    <3>3. answer \in {"none", "ok", "error"}
      BY DEF Init
    <3>4. QED
      BY <3>1, <3>2, <3>3 DEF Counts
  <2>4. Init => Files
    <3> SUFFICES ASSUME Init PROVE Files
      OBVIOUS
    <3>1. file = <<>> /\ draft = <<>> /\ <<>> \in Seq(Block)
      BY DEF Init
    <3>2. exists \in BOOLEAN
      BY DEF Init
    <3>3. pc \notin {"write", "close"}
      BY DEF Init
    <3>4. QED
      BY <3>1, <3>2, <3>3 DEF Files
  <2>5. QED
    BY <2>1, <2>2, <2>3, <2>4 DEF SInv
<1>2. SInv /\ [Next]_vars => SInv'
  BY ShapeNext, HandlersNext, CountsNext, FilesNext, WrittenNext DEF SInv
<1>3. QED
  BY <1>1, <1>2, PTL DEF Spec

(* Type correctness: nothing is received beyond the buffer or the request, *)
(* and a file that is not there has no content, for all bodies and sizes.  *)
THEOREM Typing == Spec => []TypeOK
<1>1. SInv => TypeOK
  <2> SUFFICES ASSUME SInv PROVE TypeOK
    OBVIOUS
  <2>1. Total \in Nat
    <3>1. request.body \in Seq(Setting \cup Block)
      BY RequestShape DEF SInv, Shape
    <3>2. QED
      BY <3>1 DEF Total
  <2>2. got \in 0..Total /\ counted \in 0..MaxRequest
    BY <2>1, RequestAssumption DEF SInv, Shape, Counts
  <2>3. QED
    BY <2>2 DEF SInv, Shape, Counts, Files, TypeOK, Places
<1>2. QED
  BY SInvHolds, <1>1, PTL

(* What was received of a file and written without an error is at the      *)
(* beginning of the file, for all bodies, segments and sizes of the buffer *)
(* and whatever the file held before.                                      *)
THEOREM FileHoldsReceived == Spec => []FileBeginsWithReceived
<1>1. SInv => FileBeginsWithReceived
  BY DEF SInv, Written, Begins, FileBeginsWithReceived
<1>2. QED
  BY SInvHolds, <1>1, PTL
=============================================================================
