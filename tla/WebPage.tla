------------------------------ MODULE WebPage ------------------------------
(***************************************************************************)
(* The page in the browser (webui/www/app.js) with a device behind it.     *)
(* The page keeps three copies of the configuration: the form, what the    *)
(* last load brought (originalConfig) and a working copy (currentConfig)   *)
(* whose bands gatherConfigFromUI changes in place.  Loads and saves are   *)
(* asynchronous: the user goes on typing and clicking while they are on    *)
(* the way, requests and answers may be lost, and the device may lose      *)
(* power.  The device is the ConfigStore that WebServer implements, or the *)
(* mock server (webui/src), which takes no configuration at all.           *)
(***************************************************************************)
EXTENDS ConfigStore, Naturals, FiniteSets

CONSTANTS
  Top, Bands,  (* fields: of the configuration itself, of its list of bands *)
  Stored,      (* those the device keeps; the others it leaves out          *)
  Value,       (* what a field of a configuration can hold                  *)
  Typed,       (* what can be typed or ticked, by field                     *)
  Reads,       (* what gatherConfigFromUI makes of what is in a field       *)
  Place,       (* where a field stands in the body of a save                *)
  Takes,       (* what the device makes of a value, by field: a text ends   *)
               (* at a quote and where its array is full                    *)
  Cut,         (* what it may make of a value that breaks off, by field: a  *)
               (* text is not taken then, a number or a switch is           *)
  Broken,      (* values that make the answer to a load unreadable: a text  *)
               (* that was cut at its quote still ends in a backslash       *)
  None,        (* in place of a configuration that is not there             *)
  MaxOps,      (* bound on requests of the page that are on the way         *)
  MaxFails,    (* bound on power failures                                   *)
  MaxEdits     (* bound on edits                                            *)

Fields == Top \cup Bands
Shown  == Value \cup UNION {Typed[f] : f \in Fields}

ASSUME PageAssumption ==
  /\ Config = [Fields -> Value] /\ None \notin Config
  /\ Stored \subseteq Fields
  /\ Reads \in [Shown -> Value] /\ \A v \in Value : Reads[v] = v
  /\ Place \in [Fields -> 1..Cardinality(Fields)]
  /\ Takes \in [Fields -> [Value -> Value]] /\ Cut \in [Fields -> SUBSET Value]
  /\ Broken \subseteq Value
  /\ MaxOps \in Nat \ {0} /\ MaxFails \in Nat /\ MaxEdits \in Nat

Ops      == 1..MaxOps
Form     == [Fields -> Shown]
Firmware == 2             \* version of the firmware; the page was loaded before it was installed
Free     == [kind |-> "free", step |-> "none", config |-> None, asked |-> None,
             was |-> None, wanted |-> FALSE, sure |-> FALSE]

VARIABLES
  backend,                      (* device or mock                           *)
  files, page,                  (* versions of app.js: in the file system, running *)
  currentConfig, originalConfig, form, isDirty,
  ops,     (* the requests: what, where, with which configuration; whether  *)
           (* the page that sent it is still there.  History: what the user *)
           (* asked for with it, what the device had before, whether        *)
           (* nothing came between since                                    *)
  fails, edits,   (* power failures and edits so far                        *)
  loaded,  (* history: what the last load brought                           *)
  trusted  (* history: nothing came between since that load                 *)

server  == <<backend, files>>
copies  == <<currentConfig, originalConfig, form, isDirty>>
history == <<loaded, trusted>>
counts  == <<fails, edits>>
vars    == <<storeVars, server, page, copies, ops, counts, history>>

Load(b, w, s) == [kind |-> "load", step |-> "sent", config |-> None, asked |-> b,
                  was |-> w, wanted |-> TRUE, sure |-> s]
Save(c, b, s) == [kind |-> "save", step |-> "sent", config |-> c, asked |-> b,
                  was |-> None, wanted |-> TRUE, sure |-> s]
Alone(o)         == \A p \in Ops \ {o} : ops[p] = Free
Unsure           == [o \in Ops |-> [ops[o] EXCEPT !.sure = FALSE, !.asked = None, !.was = None]]
FreeOp(left)     == {o \in Ops : left[o] = Free /\ \A p \in 1..(o - 1) : left[p] # Free}

Init ==
  /\ StoreInit /\ backend \in {"device", "mock"}
  /\ files = 1 /\ page = 1
  /\ currentConfig = None /\ originalConfig = None /\ form = None /\ isDirty = FALSE
  /\ ops = [o \in Ops |-> IF o = 1 THEN Load(None, None, TRUE) ELSE Free]
  /\ fails = 0 /\ edits = 0 /\ loaded = None /\ trusted = FALSE

-----------------------------------------------------------------------------
(* The user. *)

(* Any change of a field marks the page dirty.  Before the first load      *)
(* nothing can be sent and the load will replace it.                       *)
Edit ==
  /\ edits < MaxEdits /\ edits' = edits + 1
  /\ isDirty' = TRUE
  /\ \/ form = None /\ UNCHANGED form
     \/ form # None /\ \E f \in Fields : \E v \in Typed[f] : form' = [form EXCEPT ![f] = v]
  /\ UNCHANGED <<storeVars, server, page, currentConfig, originalConfig, ops, fails, loaded, trusted>>

(* gatherConfigFromUI (a form that is not valid is not sent): the bands of *)
(* currentConfig are changed, the other fields in the body only.           *)
Body == [f \in Fields |-> Reads[form[f]]]

(* The button stays enabled until a load has come back. *)
ClickSave ==
  /\ isDirty /\ form # None
  /\ \E o \in FreeOp(ops) :
       ops' = [Unsure EXCEPT ![o] = IF Alone(o) THEN Save(Body, Body, TRUE)
                                               ELSE Save(Body, None, FALSE)]
  /\ currentConfig' = [f \in Fields |-> IF f \in Bands THEN Body[f] ELSE currentConfig[f]]
  /\ trusted' = FALSE
  /\ UNCHANGED <<storeVars, server, page, originalConfig, form, isDirty, counts, loaded>>

(* Mutation of ClickCancel: the working copy is left as it is. *)
ClickCancelForm ==
  /\ isDirty /\ originalConfig # None
  /\ form' = originalConfig /\ isDirty' = FALSE
  /\ UNCHANGED <<storeVars, server, page, currentConfig, originalConfig, ops, counts, loaded, trusted>>

ClickCancel ==
  /\ isDirty /\ originalConfig # None
  /\ currentConfig' = originalConfig /\ form' = originalConfig /\ isDirty' = FALSE
  /\ UNCHANGED <<storeVars, server, page, originalConfig, ops, counts, loaded, trusted>>

-----------------------------------------------------------------------------
(* Answers come to the page. *)

(* loadConfig, after its fetch. *)
LoadArrives(o) ==
  /\ ops[o].kind = "load" /\ ops[o].step = "answered"
  /\ currentConfig' = ops[o].config /\ originalConfig' = ops[o].config
  /\ form' = ops[o].config /\ isDirty' = FALSE
  /\ loaded' = ops[o].config /\ trusted' = ops[o].sure
  /\ ops' = [ops EXCEPT ![o] = Free]
  /\ UNCHANGED <<storeVars, server, page, counts>>

(* A save that went well goes on with a load. *)
SaveArrives(o) ==
  /\ ops[o].kind = "save" /\ ops[o].step = "answered"
  /\ ops' = [ops EXCEPT ![o] = Load(ops[o].asked, ops[o].was, ops[o].sure)]
  /\ UNCHANGED <<storeVars, server, page, copies, counts, history>>

(* Mutation of FailureArrives: a save that failed is tried again. *)
FailureArrivesRetries(o) ==
  /\ ops[o].step = "failed"
  /\ \/ ops[o].kind = "load" /\ ops' = [ops EXCEPT ![o] = Free]
     \/ ops[o].kind = "save" /\ ops' = [ops EXCEPT ![o] = Save(Body, None, FALSE)]
  /\ UNCHANGED <<storeVars, server, page, copies, counts, history>>

(* An error: an alert, and everything is left as it is. *)
FailureArrives(o) ==
  /\ ops[o].step = "failed"
  /\ ops' = [ops EXCEPT ![o] = Free]
  /\ UNCHANGED <<storeVars, server, page, copies, counts, history>>

(* The page is loaded again, by the user or because checkVersion found     *)
(* another version on the server; app.js may come from the browser's cache *)
(* as long as that lives.  Loads on the way are given up, saves go on.     *)
ReloadTo(v) ==
  /\ phase # "off"
  /\ LET left == [o \in Ops |->
                     IF ops[o].kind = "save" /\ ops[o].step \in {"sent", "handled"}
                     THEN [Unsure[o] EXCEPT !.wanted = FALSE] ELSE Free]
     IN \E o \in FreeOp(left) :
          ops' = [left EXCEPT ![o] = Load(None, None, \A p \in Ops : left[p] = Free)]
  /\ page' = v
  /\ currentConfig' = None /\ originalConfig' = None /\ form' = None /\ isDirty' = FALSE
  /\ loaded' = None /\ trusted' = FALSE
  /\ UNCHANGED <<storeVars, server, counts>>

Reload == ReloadTo(page) \/ ReloadTo(files)

(* Mutation of CheckVersion: only a page newer than the server is loaded again. *)
CheckVersionNewer == page > Firmware /\ ReloadTo(files)

CheckVersion == page # Firmware /\ ReloadTo(files)

-----------------------------------------------------------------------------
(* The device handles one request at a time. *)

Step(o, s) == ops' = [ops EXCEPT ![o].step = s, ![o].config = None]

(* The answer, or the browser's error, which nobody hears when the page is gone. *)
End(o, s) == IF ops[o].wanted THEN Step(o, s) ELSE ops' = [ops EXCEPT ![o] = Free]

(* The answer can be parsed: no text in it runs on over its closing quote. *)
Readable == \A f \in Stored : mem[f] \notin Broken

(* Mutation of ServeLoad: the answer is what is kept. *)
ServeLoadKept(o) ==
  /\ phase = "idle" /\ ops[o].kind = "load" /\ ops[o].step = "sent"
  /\ ops' = [ops EXCEPT ![o].step = "answered",
                        ![o].config = IF kept = Nothing THEN Defaults ELSE kept]
  /\ UNCHANGED <<storeVars, server, page, copies, counts, history>>

ServeLoad(o) ==
  /\ phase = "idle" /\ ops[o].kind = "load" /\ ops[o].step = "sent" /\ Readable
  /\ ops' = [ops EXCEPT ![o].step = "answered", ![o].config = mem]
  /\ UNCHANGED <<storeVars, server, page, copies, counts, history>>

(* Otherwise response.json() fails, to loadConfig an error like another.   *)
ServeUnreadable(o) ==
  /\ phase = "idle" /\ ops[o].kind = "load" /\ ops[o].step = "sent" /\ ~Readable
  /\ End(o, "failed")
  /\ UNCHANGED <<storeVars, server, page, copies, counts, history>>

(* Mutation of Merged: a field that is not in the body goes back to its default. *)
MergedAfresh(c, n, v) ==
  [f \in Fields |-> IF f \in Stored /\ Place[f] <= n THEN Takes[f][c[f]] ELSE Defaults[f]]

(* handleAPIConfigPut takes the fields it knows, as far as the body has    *)
(* come: its first n fields, and of the next one the value v.              *)
Merged(c, n, v) ==
  [f \in Fields |-> IF f \notin Stored THEN mem[f]
                    ELSE IF Place[f] <= n THEN Takes[f][c[f]]
                    ELSE IF Place[f] = n + 1 /\ v \in Cut[f] THEN v
                    ELSE mem[f]]

(* A body that stops early is handled as it is, and answered like another. *)
ServeSave(o) ==
  /\ backend = "device" /\ ops[o].kind = "save" /\ ops[o].step = "sent"
  /\ \E n \in 0..Cardinality(Fields), v \in Value : Change(Merged(ops[o].config, n, v))
  /\ ops' = [ops EXCEPT ![o].step = "handled", ![o].config = None,
                        ![o].was = IF ops[o].sure THEN mem ELSE None]
  /\ UNCHANGED <<server, page, copies, counts, history>>

(* Mutation of AnswerSave: the answer goes out before the change is kept. *)
AnswerSaveEarly(o) ==
  /\ ops[o].step = "handled"
  /\ End(o, "answered")
  /\ UNCHANGED <<storeVars, server, page, copies, counts, history>>

AnswerSave(o) ==
  /\ ops[o].step = "handled"
  /\ Keep
  /\ End(o, "answered")
  /\ UNCHANGED <<server, page, copies, counts, history>>

(* The mock server: fromJson always fails. *)
RejectSave(o) ==
  /\ backend = "mock" /\ phase = "idle" /\ ops[o].kind = "save" /\ ops[o].step = "sent"
  /\ End(o, "failed")
  /\ UNCHANGED <<storeVars, server, page, copies, counts, history>>

(* A request does not reach the server, or its answer not the page. *)
Lose(o) ==
  /\ ops[o].step \in {"sent", "answered"}
  /\ End(o, "failed")
  /\ UNCHANGED <<storeVars, server, page, copies, counts, history>>

(* What was changed and not kept is gone: so is the page's right to trust. *)
PowerFails ==
  /\ fails < MaxFails /\ fails' = fails + 1
  /\ Fail
  /\ LET lost == failed \/ ~usable \/ phase = "changed"
     IN /\ trusted' = (trusted /\ ~lost)
        /\ ops' = [o \in Ops |->
                     IF ops[o].step # "handled" THEN (IF lost THEN Unsure ELSE ops)[o]
                     ELSE IF ops[o].wanted THEN [Unsure[o] EXCEPT !.step = "failed"]
                     ELSE Free]
  /\ UNCHANGED <<server, page, copies, edits, loaded>>

(* The device loads what is kept; the mock server never does, and writes   *)
(* its defaults over it.                                                   *)
PowerReturns ==
  /\ \/ backend = "device" /\ Boot
     \/ /\ backend = "mock" /\ phase = "off" /\ phase' = "idle"
        /\ usable' = TRUE /\ mem' = Defaults /\ kept' = Defaults
        /\ UNCHANGED failed
  /\ trusted' = (trusted /\ usable')
  /\ ops' = IF usable' THEN ops ELSE Unsure
  /\ UNCHANGED <<server, page, copies, counts, loaded>>

(* A new app.js is put into the file system. *)
UploadApp ==
  /\ phase = "idle" /\ files' = Firmware
  /\ UNCHANGED <<storeVars, backend, page, copies, ops, counts, history>>

-----------------------------------------------------------------------------
Arrival(o) == LoadArrives(o) \/ SaveArrives(o) \/ FailureArrives(o)
Service(o) == ServeLoad(o) \/ ServeUnreadable(o) \/ ServeSave(o) \/ AnswerSave(o) \/ RejectSave(o)

Next ==
  \/ Edit \/ ClickSave \/ ClickCancel
  \/ Reload \/ CheckVersion
  \/ PowerFails \/ PowerReturns \/ UploadApp
  \/ \E o \in Ops : Arrival(o) \/ Service(o) \/ Lose(o)

(* The device is switched on again and answers, the browser runs what has  *)
(* arrived.  checkVersion asks every ten seconds, and a cached app.js      *)
(* lives for an hour.                                                      *)
Spec ==
  /\ Init /\ [][Next]_vars
  /\ WF_vars(PowerReturns) /\ SF_vars(CheckVersion)
  /\ \A o \in Ops : WF_vars(Arrival(o)) /\ WF_vars(Service(o) \/ Lose(o))
-----------------------------------------------------------------------------
(* The shape of every state. *)
TypeOK ==
  /\ phase \in {"off", "idle", "changed"} /\ mem \in Config /\ usable \in BOOLEAN
  /\ kept \in Config \cup {Nothing} /\ failed \in BOOLEAN
  /\ backend \in {"device", "mock"} /\ {files, page} \subseteq {1, Firmware}
  /\ {currentConfig, originalConfig, loaded} \subseteq Config \cup {None}
  /\ form \in Form \cup {None} /\ isDirty \in BOOLEAN /\ trusted \in BOOLEAN
  /\ \A o \in Ops :
       /\ ops[o].kind \in {"free", "load", "save"}
       /\ ops[o].step \in {"none", "sent", "handled", "answered", "failed"}
       /\ ops[o].config \in Config \cup {None}
       /\ ops[o].step \in {"answered", "failed"} => ops[o].wanted
  /\ fails \in 0..MaxFails /\ edits \in 0..MaxEdits
  /\ phase = "changed" <=> \E o \in Ops : ops[o].step = "handled"

(* A page whose buttons are off shows what the last load brought, in all   *)
(* its copies: whatever loads, failed saves, cancels and edits came in     *)
(* between, nothing of a change that was given up is left to be sent with  *)
(* a later one.                                                            *)
CleanShowsLoaded ==
  ~isDirty => form = loaded /\ currentConfig = loaded /\ originalConfig = loaded

(* If no save was on the way when the page loaded what it shows, it shows  *)
(* the configuration in use, and goes on doing so when power fails and     *)
(* returns, as long as NVS took what was saved.                            *)
TrustedPageIsTrue ==
  trusted /\ ~isDirty /\ phase = "idle" => form = mem

(* c is w with the front of b, as the device takes it, written over it. *)
Taken(c, b, w) ==
  \E n \in 0..Cardinality(Fields) : \A f \in Stored :
    /\ Place[f] <= n => c[f] = Takes[f][b[f]]
    /\ Place[f] > n  => c[f] = w[f] \/ (Place[f] = n + 1 /\ c[f] \in Cut[f])

(* A save is answered ok even if its body broke off.  When no other        *)
(* request was on the way, the load that follows the answer tells the user *)
(* how far it came: the form shows the front of what was asked for, cut as *)
(* the device cuts it, then what the device had before, and nothing else,  *)
(* even if power failed before the load.                                   *)
LoadShowsTaken ==
  [][\A o \in Ops : LoadArrives(o) /\ ops[o].asked # None /\ ops[o].sure =>
       Taken(form', ops[o].asked, ops[o].was)]_vars

(* Every save comes to an end, whatever is lost: none is tried for ever. *)
SaveEnds ==
  \A o \in Ops : ops[o].kind = "save" ~> ops[o].kind # "save"

(* Once the app.js of the firmware's version is in the file system the     *)
(* page comes to run it, whatever the browser has in its cache.            *)
PageUpdates == files = Firmware ~> page = Firmware
=============================================================================
