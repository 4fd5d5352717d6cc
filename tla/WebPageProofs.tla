--------------------------- MODULE WebPageProofs ---------------------------
(***************************************************************************)
(* Proofs about WebPage, for all configurations, whatever the device keeps *)
(* of them, and however many requests, power failures and edits: the page  *)
(* whose buttons are off shows the last load in all its copies; a page     *)
(* that may be trusted shows the configuration in use; and the load after  *)
(* a save that went on alone shows what the device took of it, wherever    *)
(* the body broke off.                                                     *)
(*                                                                         *)
(* The last two rest on one fact about the history: a request that is      *)
(* "sure" is the only one there is, and when the page is "trusted" there   *)
(* is none.  So nothing can be between a copy in the page, or in an answer *)
(* that is on its way, and the configuration in use, or the one the next   *)
(* start will bring when power is off.                                     *)
(***************************************************************************)
EXTENDS WebPage, TLAPS

Record == [kind : {"free", "load", "save"},
           step : {"none", "sent", "handled", "answered", "failed"},
           config : Config \cup {None}, asked : Config \cup {None},
           was : Config \cup {None}, wanted : BOOLEAN, sure : BOOLEAN]

(* The device, its store and what it serves. *)
Device ==
  /\ phase \in {"off", "idle", "changed"} /\ mem \in Config /\ usable \in BOOLEAN
  /\ kept \in Config \cup {Nothing} /\ failed \in BOOLEAN
  /\ backend \in {"device", "mock"} /\ files \in {1, Firmware} /\ page \in {1, Firmware}
  /\ fails \in 0..MaxFails /\ edits \in 0..MaxEdits

(* The requests. *)
Slot(r) ==
  /\ r.step = "none" => r = Free
  /\ r.step = "handled" => r.kind = "save"
  /\ r.step \in {"answered", "failed"} => r.wanted
  /\ r.kind = "load" => r.wanted
  /\ r.kind = "save" /\ r.step = "sent" => r.config \in Config
  /\ r.kind = "load" /\ r.step = "answered" => r.config \in Config

Slots == ops \in [Ops -> Record] /\ \A o \in Ops : Slot(ops[o])

(* The device handles one request when it is changed, and none otherwise; *)
(* the mock server changes nothing.                                       *)
OneHandled ==
  /\ phase = "changed" => \E o \in Ops : ops[o].step = "handled"
  /\ \A o \in Ops : ops[o].step = "handled" => phase = "changed" /\ backend = "device"
  /\ \A o, p \in Ops : ops[o].step = "handled" /\ ops[p].step = "handled" => o = p
  /\ backend = "mock" => mem = Defaults /\ kept \in {Nothing, Defaults}

(* The page's copies. *)
Copies ==
  /\ currentConfig \in Config \cup {None} /\ originalConfig \in Config \cup {None}
  /\ form \in Form \cup {None} /\ isDirty \in BOOLEAN /\ trusted \in BOOLEAN
  /\ form # None => currentConfig \in Config
  /\ originalConfig = loaded
  /\ ~isDirty => form = loaded /\ currentConfig = loaded

(* A sure request is alone; nothing is on its way to or from a trusted page. *)
Sole ==
  /\ \A o \in Ops : ops[o].sure => Alone(o)
  /\ trusted => \A o \in Ops : ops[o] = Free

(* What the next start brings. *)
Brings == IF kept = Nothing THEN Defaults ELSE kept

(* The configuration in use, or to be in use, is c, or is what has become  *)
(* of w by a save of b.                                                    *)
Same(c)      == /\ phase = "idle" => c = mem
                /\ phase = "off"  => c = Brings
Stands(b, w) == /\ phase = "idle" => Taken(mem, b, w)
                /\ phase = "off"  => Taken(Brings, b, w)

Truth ==
  /\ Durable
  /\ trusted => Same(loaded)
  /\ \A o \in Ops :
       /\ ops[o].sure /\ ops[o].kind = "load" /\ ops[o].step = "answered" => Same(ops[o].config)

(* How far a save that is sure, and the load that follows it, have come. *)
Course(r) ==
  r.sure /\ r.asked # None =>
    /\ r.kind = "save" /\ r.step = "sent" => r.config = r.asked
    /\ r.step = "handled" => Taken(mem, r.asked, r.was)
    /\ r.kind = "save" /\ r.step = "answered" => Stands(r.asked, r.was)
    /\ r.kind = "load" /\ r.step = "sent" => Stands(r.asked, r.was)
    /\ r.kind = "load" /\ r.step = "answered" => Taken(r.config, r.asked, r.was)

Asked == \A o \in Ops : Course(ops[o])

PInv == Device /\ Slots /\ OneHandled /\ Copies /\ Sole /\ Truth /\ Asked

-----------------------------------------------------------------------------
(* What the actions make of the requests. *)

(* Only request o changes. *)
Only(o) == ops' \in [Ops -> Record] /\ \A p \in Ops : p # o => ops'[p] = ops[p]

(* Request o goes to step s, with configuration c. *)
Goes(o, s, c) ==
  /\ Only(o)
  /\ ops'[o].step = s /\ ops'[o].config = c
  /\ ops'[o].kind = ops[o].kind /\ ops'[o].asked = ops[o].asked /\ ops'[o].was = ops[o].was
  /\ ops'[o].wanted = ops[o].wanted /\ ops'[o].sure = ops[o].sure

(* Request p is as it was, but nobody vouches for it any more. *)
Doubted(p) ==
  /\ ops'[p].kind = ops[p].kind /\ ops'[p].step = ops[p].step
  /\ ops'[p].config = ops[p].config /\ ops'[p].wanted = ops[p].wanted
  /\ ops'[p].asked = None /\ ~ops'[p].sure
  /\ ops[p] = Free => ops'[p] = Free

LEMMA FreeIsRecord == Free \in Record
BY DEF Free, Record

LEMMA SameRecord ==
  ASSUME NEW a \in Record, NEW b \in Record, a.kind = b.kind, a.step = b.step,
         a.config = b.config, a.asked = b.asked, a.was = b.was, a.wanted = b.wanted, a.sure = b.sure
  PROVE  a = b
BY DEF Record

LEMMA LoadIsRecord ==
  ASSUME NEW b \in Config \cup {None}, NEW w \in Config \cup {None}, NEW s \in BOOLEAN
  PROVE  Load(b, w, s) \in Record
BY DEF Load, Record

LEMMA SaveIsRecord ==
  ASSUME NEW c \in Config, NEW b \in Config \cup {None}, NEW s \in BOOLEAN
  PROVE  Save(c, b, s) \in Record
BY DEF Save, Record

LEMMA FreeOps ==
  ASSUME Slots, NEW o \in Ops, ops' = [ops EXCEPT ![o] = Free]
  PROVE  Only(o) /\ ops'[o] = Free
BY FreeIsRecord DEF Slots, Only

LEMMA StepOps ==
  ASSUME Slots, NEW o \in Ops, NEW s \in {"answered", "failed"}, Step(o, s)
  PROVE  Goes(o, s, None)
<1>1. ops[o] \in Record
  BY DEF Slots
<1>2. ops' = [ops EXCEPT ![o] = [ops[o] EXCEPT !.step = s, !.config = None]]
  BY DEF Step, Slots
<1>3. [ops[o] EXCEPT !.step = s, !.config = None] \in Record
  BY <1>1 DEF Record
<1>4. Only(o) /\ ops'[o] = [ops[o] EXCEPT !.step = s, !.config = None]
  BY <1>2, <1>3 DEF Slots, Only
<1>5. QED
  BY <1>1, <1>4 DEF Record, Goes

LEMMA EndOps ==
  ASSUME Slots, NEW o \in Ops, NEW s \in {"answered", "failed"}, End(o, s)
  PROVE  \/ ops[o].wanted /\ Goes(o, s, None)
         \/ Only(o) /\ ops'[o] = Free
BY StepOps, FreeOps DEF End

LEMMA ServeLoadOps ==
  ASSUME Slots, Device, NEW o \in Ops, ServeLoad(o)
  PROVE  Goes(o, "answered", mem)
<1>1. ops[o] \in Record
  BY DEF Slots
<1>2. ops' = [ops EXCEPT ![o] = [ops[o] EXCEPT !.step = "answered", !.config = mem]]
  BY DEF ServeLoad, Slots
<1>3. [ops[o] EXCEPT !.step = "answered", !.config = mem] \in Record
  BY <1>1 DEF Record, Device
<1>4. Only(o) /\ ops'[o] = [ops[o] EXCEPT !.step = "answered", !.config = mem]
  BY <1>2, <1>3 DEF Slots, Only
<1>5. QED
  BY <1>1, <1>4 DEF Record, Goes

(* A save that the device handles remembers what the device had before. *)
LEMMA ServeSaveOps ==
  ASSUME Slots, Device, NEW o \in Ops, ServeSave(o)
  PROVE  /\ Only(o)
         /\ ops'[o].step = "handled" /\ ops'[o].kind = "save"
         /\ ops'[o].asked = ops[o].asked /\ ops'[o].sure = ops[o].sure
         /\ ops[o].sure => ops'[o].was = mem
<1>1. ops[o] \in Record
  BY DEF Slots
<1> DEFINE w == IF ops[o].sure THEN mem ELSE None
           r == [ops[o] EXCEPT !.step = "handled", !.config = None, !.was = w]
<1>2. ops' = [ops EXCEPT ![o] = r] /\ ops[o].kind = "save"
  BY DEF ServeSave, Slots
<1>3. w \in Config \cup {None}
  BY DEF Device
<1> HIDE DEF w
<1>4. /\ r \in Record
      /\ r.step = "handled" /\ r.kind = ops[o].kind /\ r.was = w
      /\ r.asked = ops[o].asked /\ r.sure = ops[o].sure
  BY <1>1, <1>3 DEF Record
<1> HIDE DEF r
<1>5. Only(o) /\ ops'[o] = r
  BY <1>2, <1>4 DEF Slots, Only
<1>6. QED
  BY <1>2, <1>4, <1>5 DEF w

LEMMA SaveArrivesOps ==
  ASSUME Slots, NEW o \in Ops, SaveArrives(o)
  PROVE  Only(o) /\ ops'[o] = Load(ops[o].asked, ops[o].was, ops[o].sure)
<1>1. {ops[o].asked, ops[o].was} \subseteq Config \cup {None} /\ ops[o].sure \in BOOLEAN
  BY DEF Slots, Record
<1>2. Load(ops[o].asked, ops[o].was, ops[o].sure) \in Record
  BY <1>1, LoadIsRecord
<1>3. QED
  BY <1>2 DEF SaveArrives, Slots, Only

LEMMA UnsureOps ==
  ASSUME Slots
  PROVE  /\ Unsure \in [Ops -> Record]
         /\ \A p \in Ops : ops' = Unsure => Doubted(p)
         /\ \A p \in Ops :
              /\ Unsure[p].kind = ops[p].kind /\ Unsure[p].step = ops[p].step
              /\ Unsure[p].config = ops[p].config /\ Unsure[p].wanted = ops[p].wanted
              /\ Unsure[p].asked = None /\ ~Unsure[p].sure
              /\ ops[p] = Free => Unsure[p] = Free
<1>1. \A p \in Ops : ops[p] \in Record /\ Unsure[p] = [ops[p] EXCEPT !.sure = FALSE, !.asked = None, !.was = None]
  BY DEF Slots, Unsure
<1>2. \A p \in Ops : Unsure[p] \in Record
  <2> SUFFICES ASSUME NEW p \in Ops PROVE Unsure[p] \in Record
    OBVIOUS
  <2>1. ops[p] \in Record /\ None \in Config \cup {None} /\ FALSE \in BOOLEAN
    BY <1>1
  <2>2. \A r \in Record, c \in Config \cup {None}, b \in BOOLEAN :
          [r EXCEPT !.sure = b, !.asked = c, !.was = c] \in Record
    BY ZenonT(60) DEF Record
  <2>3. [ops[p] EXCEPT !.sure = FALSE, !.asked = None, !.was = None] \in Record
    BY <2>1, <2>2
  <2>4. QED
    BY <1>1, <2>3
<1>3. Unsure \in [Ops -> Record]
  BY <1>1, <1>2 DEF Unsure
<1>4. \A p \in Ops :
        /\ Unsure[p].kind = ops[p].kind /\ Unsure[p].step = ops[p].step
        /\ Unsure[p].config = ops[p].config /\ Unsure[p].wanted = ops[p].wanted
        /\ Unsure[p].asked = None /\ Unsure[p].sure = FALSE /\ Unsure[p].was = None
  BY <1>1 DEF Record
<1>5. \A p \in Ops : ops[p] = Free => Unsure[p] = Free
  <2> SUFFICES ASSUME NEW p \in Ops, ops[p] = Free PROVE Unsure[p] = Free
    OBVIOUS
  <2>1. Unsure[p] \in Record /\ Free \in Record
    BY <1>2, FreeIsRecord
  <2>2. /\ Unsure[p].kind = Free.kind /\ Unsure[p].step = Free.step
        /\ Unsure[p].config = Free.config /\ Unsure[p].wanted = Free.wanted
    BY <1>4
  <2>3. Unsure[p].asked = Free.asked /\ Unsure[p].sure = Free.sure /\ Unsure[p].was = Free.was
    BY <1>4 DEF Free
  <2>4. QED
    BY <2>1, <2>2, <2>3, SameRecord
<1>6. QED
  BY <1>3, <1>4, <1>5 DEF Doubted

(* What a form reads as is a configuration. *)
LEMMA BodyIsConfig ==
  ASSUME form \in Form
  PROVE  Body \in Config
BY PageAssumption DEF Form, Body

(* A click on save: a new save, sure when it is alone; the others are      *)
(* doubted. *)
LEMMA ClickSaveOps ==
  ASSUME Slots, Copies, ClickSave
  PROVE  \E o \in Ops :
           /\ ops' \in [Ops -> Record] /\ ops[o] = Free
           /\ ops'[o] = IF Alone(o) THEN Save(Body, Body, TRUE) ELSE Save(Body, None, FALSE)
           /\ \A p \in Ops : p # o => Doubted(p)
<1>1. Body \in Config
  BY BodyIsConfig DEF ClickSave, Copies
<1>2. PICK o \in FreeOp(ops) :
        ops' = [Unsure EXCEPT ![o] = IF Alone(o) THEN Save(Body, Body, TRUE)
                                               ELSE Save(Body, None, FALSE)]
  BY DEF ClickSave
<1>3. o \in Ops /\ ops[o] = Free
  BY DEF FreeOp
<1>4. Save(Body, Body, TRUE) \in Record /\ Save(Body, None, FALSE) \in Record
  BY <1>1, SaveIsRecord
<1> DEFINE r == IF Alone(o) THEN Save(Body, Body, TRUE) ELSE Save(Body, None, FALSE)
<1>5. r \in Record
  BY <1>4
<1> HIDE DEF r
<1>6. /\ ops' \in [Ops -> Record] /\ ops'[o] = r
      /\ \A p \in Ops : p # o => ops'[p] = Unsure[p]
  BY <1>2, <1>3, <1>5, UnsureOps DEF r
<1>7. \A p \in Ops : p # o => Doubted(p)
  BY <1>6, UnsureOps DEF Doubted
<1>8. QED
  BY <1>3, <1>6, <1>7 DEF r

(* A reload: a new load, sure when nothing else is left; saves that the    *)
(* device has are left, doubted and unwanted; the rest is given up.        *)
LEMMA ReloadOps ==
  ASSUME Slots, NEW v, ReloadTo(v)
  PROVE  \E o \in Ops : \E s \in BOOLEAN :
           /\ ops' \in [Ops -> Record] /\ ops'[o] = Load(None, None, s)
           /\ s => \A p \in Ops : p # o => ops'[p] = Free
           /\ ops[o].step # "handled"
           /\ \A p \in Ops : p # o =>
                \/ /\ ops'[p] = Free /\ ops[p].step # "handled"
                \/ /\ ops[p].kind = "save" /\ ops[p].step \in {"sent", "handled"}
                   /\ ops'[p].kind = "save" /\ ops'[p].step = ops[p].step
                   /\ ops'[p].config = ops[p].config
                   /\ ops'[p].asked = None /\ ~ops'[p].sure
<1> DEFINE stays(p) == ops[p].kind = "save" /\ ops[p].step \in {"sent", "handled"}
           left == [p \in Ops |-> IF stays(p) THEN [Unsure[p] EXCEPT !.wanted = FALSE] ELSE Free]
<1>1. PICK o \in FreeOp(left) : ops' = [left EXCEPT ![o] = Load(None, None, \A p \in Ops : left[p] = Free)]
  BY DEF ReloadTo
<1>2. \A p \in Ops : stays(p) =>
        /\ left[p] \in Record
        /\ left[p].kind = "save" /\ left[p].step = ops[p].step /\ left[p].config = ops[p].config
        /\ left[p].asked = None /\ ~left[p].sure
  <2> SUFFICES ASSUME NEW p \in Ops, stays(p)
               PROVE  /\ left[p] \in Record
                      /\ left[p].kind = "save" /\ left[p].step = ops[p].step
                      /\ left[p].config = ops[p].config
                      /\ left[p].asked = None /\ ~left[p].sure
    OBVIOUS
  <2>1. Unsure[p] \in Record /\ Unsure[p].kind = "save" /\ Unsure[p].step = ops[p].step
        /\ Unsure[p].config = ops[p].config /\ Unsure[p].asked = None /\ Unsure[p].sure = FALSE
    BY UnsureOps
  <2>2. left[p] = [Unsure[p] EXCEPT !.wanted = FALSE]
    OBVIOUS
  <2>3. QED
    BY <2>1, <2>2 DEF Record
<1>3. \A p \in Ops : ~stays(p) => left[p] = Free
  OBVIOUS
<1>4. left \in [Ops -> Record]
  <2>1. \A p \in Ops : left[p] \in Record
    BY <1>2, <1>3, FreeIsRecord
  <2>2. QED
    BY <2>1
<1>5. o \in Ops /\ left[o] = Free
  BY DEF FreeOp
<1>6. ~stays(o)
  BY <1>2, <1>5 DEF Free
<1> HIDE DEF left
<1> DEFINE s == \A p \in Ops : left[p] = Free
<1>7. s \in BOOLEAN
  OBVIOUS
<1>8. ops'[o] = Load(None, None, s) /\ \A p \in Ops : p # o => ops'[p] = left[p]
  BY <1>1, <1>4, <1>5
<1>9. ops' \in [Ops -> Record]
  <2>1. Load(None, None, s) \in Record
    BY <1>7, LoadIsRecord
  <2>2. QED
    BY <1>1, <1>4, <2>1
<1>10. \A p \in Ops : ~stays(p) => ops[p].step # "handled"
  BY DEF Slots, Slot
<1>11. QED
  <2>1. s => \A p \in Ops : p # o => ops'[p] = Free
    BY <1>8
  <2>2. ops[o].step # "handled"
    BY <1>5, <1>6, <1>10
  <2>3. \A p \in Ops : p # o =>
                \/ /\ ops'[p] = Free /\ ops[p].step # "handled"
                \/ /\ ops[p].kind = "save" /\ ops[p].step \in {"sent", "handled"}
                   /\ ops'[p].kind = "save" /\ ops'[p].step = ops[p].step
                   /\ ops'[p].config = ops[p].config
                   /\ ops'[p].asked = None /\ ~ops'[p].sure
    BY <1>2, <1>3, <1>8, <1>10
  <2> HIDE DEF s
  <2>4. QED
    BY <1>5, <1>7, <1>8, <1>9, <2>1, <2>2, <2>3

(* A power failure: the request that was handled ends, and when something  *)
(* was lost the others are doubted. *)
LEMMA PowerFailsOps ==
  ASSUME Slots, PowerFails
  PROVE  /\ ops' \in [Ops -> Record]
         /\ \A p \in Ops :
              \/ ops[p].step = "handled" /\ ops'[p] = Free
              \/ /\ ops[p].step = "handled" /\ ops'[p].step = "failed" /\ ops'[p].wanted
                 /\ ops'[p].kind = ops[p].kind /\ ops'[p].asked = None /\ ~ops'[p].sure
              \/ ops[p].step # "handled" /\ Doubted(p)
              \/ /\ ops[p].step # "handled" /\ ops'[p] = ops[p]
                 /\ ~failed /\ usable /\ phase # "changed"
<1> DEFINE lost == failed \/ ~usable \/ phase = "changed"
           after(p) == IF ops[p].step # "handled" THEN (IF lost THEN Unsure ELSE ops)[p]
                       ELSE IF ops[p].wanted THEN [Unsure[p] EXCEPT !.step = "failed"]
                       ELSE Free
<1>1. ops' = [p \in Ops |-> after(p)]
  BY DEF PowerFails
<1>2. \A p \in Ops : after(p) \in Record
  <2> SUFFICES ASSUME NEW p \in Ops PROVE after(p) \in Record
    OBVIOUS
  <2>1. Unsure[p] \in Record /\ ops[p] \in Record /\ Free \in Record
    BY UnsureOps, FreeIsRecord DEF Slots
  <2>2. [Unsure[p] EXCEPT !.step = "failed"] \in Record
    BY <2>1 DEF Record
  <2>3. QED
    BY <2>1, <2>2
<1>3. ops' \in [Ops -> Record]
  BY <1>1, <1>2
<1>4. ASSUME NEW p \in Ops
      PROVE  \/ ops[p].step = "handled" /\ ops'[p] = Free
             \/ /\ ops[p].step = "handled" /\ ops'[p].step = "failed" /\ ops'[p].wanted
                /\ ops'[p].kind = ops[p].kind /\ ops'[p].asked = None /\ ~ops'[p].sure
             \/ ops[p].step # "handled" /\ Doubted(p)
             \/ /\ ops[p].step # "handled" /\ ops'[p] = ops[p]
                /\ ~failed /\ usable /\ phase # "changed"
  <2>1. ops'[p] = after(p)
    BY <1>1
  <2>2. CASE ops[p].step # "handled" /\ lost
    <3>1. ops'[p] = Unsure[p]
      BY <2>1, <2>2
    <3>2. QED
      BY <2>2, <3>1, UnsureOps DEF Doubted
  <2>3. CASE ops[p].step # "handled" /\ ~lost
    BY <2>1, <2>3
  <2>4. CASE ops[p].step = "handled" /\ ops[p].wanted
    <3>1. Unsure[p] \in Record /\ Unsure[p].kind = ops[p].kind /\ Unsure[p].asked = None
          /\ Unsure[p].sure = FALSE /\ Unsure[p].wanted = ops[p].wanted
      BY UnsureOps
    <3>2. ops'[p] = [Unsure[p] EXCEPT !.step = "failed"]
      BY <2>1, <2>4
    <3>3. QED
      BY <2>4, <3>1, <3>2 DEF Record
  <2>5. CASE ops[p].step = "handled" /\ ~ops[p].wanted
    BY <2>1, <2>5
  <2>6. QED
    BY <2>2, <2>3, <2>4, <2>5
<1>5. QED
  BY <1>3, <1>4

(* The device is switched on: when it finds its memory unusable the        *)
(* requests are doubted. *)
LEMMA PowerReturnsOps ==
  ASSUME Slots, PowerReturns
  PROVE  \/ usable' /\ ops' = ops
         \/ /\ ~usable' /\ ops' \in [Ops -> Record]
            /\ \A p \in Ops : Doubted(p)
BY UnsureOps DEF PowerReturns

-----------------------------------------------------------------------------
(* Each step keeps the invariant, part by part. *)

(* What the device makes of its configuration and the front of another is  *)
(* a configuration, and is what Taken says.                                *)
LEMMA MergedIsConfig ==
  ASSUME mem \in Config, NEW c \in Config, NEW n \in 0..Cardinality(Fields), NEW v \in Value
  PROVE  Merged(c, n, v) \in Config /\ Taken(Merged(c, n, v), c, mem)
<1> USE PageAssumption
<1>1. \A f \in Fields : mem[f] \in Value /\ Takes[f][c[f]] \in Value
  OBVIOUS
<1>2. Merged(c, n, v) \in [Fields -> Value]
  BY <1>1 DEF Merged
<1>3. \A f \in Stored :
        /\ Place[f] <= n => Merged(c, n, v)[f] = Takes[f][c[f]]
        /\ Place[f] > n  => \/ Merged(c, n, v)[f] = mem[f]
                            \/ Place[f] = n + 1 /\ Merged(c, n, v)[f] \in Cut[f]
  <2> SUFFICES ASSUME NEW f \in Stored
               PROVE  /\ Place[f] <= n => Merged(c, n, v)[f] = Takes[f][c[f]]
                      /\ Place[f] > n  => \/ Merged(c, n, v)[f] = mem[f]
                                          \/ Place[f] = n + 1 /\ Merged(c, n, v)[f] \in Cut[f]
    OBVIOUS
  <2>1. f \in Fields
    OBVIOUS
  <2>2. Merged(c, n, v)[f] = IF Place[f] <= n THEN Takes[f][c[f]]
                             ELSE IF Place[f] = n + 1 /\ v \in Cut[f] THEN v ELSE mem[f]
    BY <2>1 DEF Merged
  <2>p. Place[f] \in Nat /\ n \in Nat
    BY <2>1
  <2>3. QED
    BY <2>2, <2>p
<1>4. QED
  BY <1>2, <1>3 DEF Taken

LEMMA DeviceNext == PInv /\ [Next]_vars => Device'
<1> SUFFICES ASSUME PInv, [Next]_vars PROVE Device'
  OBVIOUS
<1> USE PageAssumption, StoreAssumption DEF PInv, Device, server, counts, history
<1>1. CASE Edit
  BY <1>1 DEF Edit, storeVars
<1>2. CASE ClickSave \/ ClickCancel
  BY <1>2 DEF ClickSave, ClickCancel, storeVars
<1>3. CASE Reload \/ CheckVersion
  BY <1>3 DEF Reload, CheckVersion, ReloadTo, storeVars
<1>4. CASE PowerFails
  <2>1. fails' \in 0..MaxFails
    BY <1>4 DEF PowerFails
  <2>2. phase' = "off" /\ mem' \in Config /\ usable' \in BOOLEAN /\ failed' \in BOOLEAN
    BY <1>4 DEF PowerFails, Fail
  <2>3. UNCHANGED <<kept, backend, files, page, edits>>
    BY <1>4 DEF PowerFails, Fail
  <2>4. QED
    BY <2>1, <2>2, <2>3
<1>5. CASE PowerReturns
  BY <1>5 DEF PowerReturns, Boot
<1>6. CASE UploadApp
  BY <1>6 DEF UploadApp, storeVars
<1>7. ASSUME NEW o \in Ops, Arrival(o) \/ ServeLoad(o) \/ ServeUnreadable(o) \/ RejectSave(o) \/ Lose(o)
      PROVE  Device'
  BY <1>7 DEF Arrival, LoadArrives, SaveArrives, FailureArrives, ServeLoad, ServeUnreadable,
              RejectSave, Lose, storeVars
<1>8. ASSUME NEW o \in Ops, ServeSave(o)
      PROVE  Device'
  <2>1. ops[o].config \in Config
    BY <1>8 DEF ServeSave, Slots, Slot
  <2>2. PICK n \in 0..Cardinality(Fields), v \in Value : Change(Merged(ops[o].config, n, v))
    BY <1>8 DEF ServeSave
  <2>m. Merged(ops[o].config, n, v) \in Config
    BY <2>1, MergedIsConfig
  <2>3. mem' \in Config /\ phase' = "changed"
    BY <2>2, <2>m DEF Change
  <2>4. UNCHANGED <<usable, kept, failed, backend, files, page, fails, edits>>
    BY <1>8 DEF ServeSave, Change
  <2>5. QED
    BY <2>3, <2>4
<1>9. ASSUME NEW o \in Ops, AnswerSave(o)
      PROVE  Device'
  BY <1>9 DEF AnswerSave, Keep
<1>10. CASE UNCHANGED vars
  BY <1>10 DEF vars, storeVars
<1>11. QED
  BY <1>1, <1>2, <1>3, <1>4, <1>5, <1>6, <1>7, <1>8, <1>9, <1>10 DEF Next, Service

LEMMA FreeSlot == Slot(Free)
BY DEF Slot, Free

(* When one request changes and is well formed, all are. *)
LEMMA OnlySlots ==
  ASSUME Slots, NEW o \in Ops, Only(o), Slot(ops'[o])
  PROVE  Slots'
BY DEF Slots, Only

LEMMA SlotsNext == PInv /\ [Next]_vars => Slots'
<1> SUFFICES ASSUME PInv, [Next]_vars PROVE Slots'
  OBVIOUS
<1>s. Slots /\ Device /\ Copies
  BY DEF PInv
<1>d. \A p \in Ops : Doubted(p) => Slot(ops'[p])
  BY <1>s DEF Slots, Slot, Doubted, Free
<1>1. CASE ClickSave
  <2>1. PICK o \in Ops :
           /\ ops' \in [Ops -> Record] /\ ops[o] = Free
           /\ ops'[o] = IF Alone(o) THEN Save(Body, Body, TRUE) ELSE Save(Body, None, FALSE)
           /\ \A p \in Ops : p # o => Doubted(p)
    BY <1>s, <1>1, ClickSaveOps
  <2>2. Body \in Config
    BY <1>s, <1>1, BodyIsConfig DEF ClickSave, Copies
  <2>3. ops'[o].kind = "save" /\ ops'[o].step = "sent" /\ ops'[o].config \in Config
    BY <2>1, <2>2 DEF Save
  <2>4. Slot(ops'[o])
    BY <2>3 DEF Slot
  <2>5. QED
    BY <1>d, <2>1, <2>4 DEF Slots
<1>2. CASE Reload \/ CheckVersion
  <2>1. PICK v : ReloadTo(v)
    BY <1>2 DEF Reload, CheckVersion
  <2>2. PICK o \in Ops : \E s \in BOOLEAN :
           /\ ops' \in [Ops -> Record] /\ ops'[o] = Load(None, None, s)
           /\ \A p \in Ops : p # o =>
                \/ ops'[p] = Free
                \/ /\ ops[p].kind = "save" /\ ops[p].step \in {"sent", "handled"}
                   /\ ops'[p].kind = "save" /\ ops'[p].step = ops[p].step
                   /\ ops'[p].config = ops[p].config
    BY <1>s, <2>1, ReloadOps
  <2>3. ops'[o].kind = "load" /\ ops'[o].step = "sent" /\ ops'[o].wanted
    BY <2>2 DEF Load
  <2>4. Slot(ops'[o])
    BY <2>3 DEF Slot
  <2>5. ASSUME NEW p \in Ops, p # o PROVE Slot(ops'[p])
    <3>1. CASE ops'[p] = Free
      BY <3>1, FreeSlot
    <3>2. CASE ops'[p] # Free
      BY <1>s, <2>2, <2>5, <3>2 DEF Slots, Slot
    <3>3. QED
      BY <3>1, <3>2
  <2>6. QED
    BY <2>2, <2>4, <2>5 DEF Slots
<1>3. CASE PowerFails
  <2>1. ASSUME NEW p \in Ops PROVE Slot(ops'[p])
    <3>1. CASE ops'[p] = Free
      BY <3>1, FreeSlot
    <3>2. CASE ops'[p].step = "failed" /\ ops'[p].wanted
      BY <3>2 DEF Slot
    <3>3. CASE Doubted(p) \/ ops'[p] = ops[p]
      BY <1>s, <1>d, <3>3 DEF Slots
    <3>4. QED
      BY <1>s, <1>3, <3>1, <3>2, <3>3, PowerFailsOps
  <2>2. QED
    BY <1>s, <1>3, <2>1, PowerFailsOps DEF Slots
<1>4. CASE PowerReturns
  BY <1>s, <1>d, <1>4, PowerReturnsOps DEF Slots
<1>5. ASSUME NEW o \in Ops, LoadArrives(o) \/ FailureArrives(o)
      PROVE  Slots'
  BY <1>s, <1>5, FreeOps, FreeSlot, OnlySlots DEF LoadArrives, FailureArrives
<1>6. ASSUME NEW o \in Ops, SaveArrives(o)
      PROVE  Slots'
  <2>1. Only(o) /\ ops'[o] = Load(ops[o].asked, ops[o].was, ops[o].sure)
    BY <1>s, <1>6, SaveArrivesOps
  <2>2. ops'[o].kind = "load" /\ ops'[o].step = "sent" /\ ops'[o].wanted
    BY <2>1 DEF Load
  <2>3. Slot(ops'[o])
    BY <2>2 DEF Slot
  <2>4. QED
    BY <1>s, <2>1, <2>3, OnlySlots
<1>7. ASSUME NEW o \in Ops, ServeLoad(o)
      PROVE  Slots'
  <2>1. Goes(o, "answered", mem) /\ mem \in Config
    BY <1>s, <1>7, ServeLoadOps DEF Device
  <2>2. ops[o].kind = "load" /\ ops[o].wanted
    BY <1>s, <1>7 DEF ServeLoad, Slots, Slot
  <2>3. Slot(ops'[o])
    BY <2>1, <2>2 DEF Slot, Goes
  <2>4. QED
    BY <1>s, <2>1, <2>3, OnlySlots DEF Goes
<1>8. ASSUME NEW o \in Ops, ServeSave(o)
      PROVE  Slots'
  <2>1. Only(o) /\ ops'[o].step = "handled" /\ ops'[o].kind = "save"
    BY <1>s, <1>8, ServeSaveOps
  <2>2. Slot(ops'[o])
    BY <2>1 DEF Slot
  <2>3. QED
    BY <1>s, <2>1, <2>2, OnlySlots
<1>9. ASSUME NEW o \in Ops, AnswerSave(o) \/ ServeUnreadable(o) \/ RejectSave(o) \/ Lose(o)
      PROVE  Slots'
  <2>1. Only(o) /\ ops'[o] = Free => Slots'
    BY <1>s, FreeSlot, OnlySlots
  <2>2. ASSUME ops[o].wanted, Goes(o, "failed", None) PROVE Slots'
    <3>1. Slot(ops'[o])
      BY <2>2 DEF Slot, Goes
    <3>2. QED
      BY <1>s, <2>2, <3>1, OnlySlots DEF Goes
  <2>3. ASSUME AnswerSave(o), ops[o].wanted, Goes(o, "answered", None) PROVE Slots'
    <3>1. ops[o].kind = "save"
      BY <1>s, <2>3 DEF AnswerSave, Slots, Slot
    <3>2. Slot(ops'[o])
      BY <2>3, <3>1 DEF Slot, Goes
    <3>3. QED
      BY <1>s, <2>3, <3>2, OnlySlots DEF Goes
  <2>4. QED
    BY <1>s, <1>9, <2>1, <2>2, <2>3, EndOps DEF AnswerSave, ServeUnreadable, RejectSave, Lose
<1>10. CASE Edit \/ ClickCancel \/ UploadApp \/ UNCHANGED vars
  BY <1>s, <1>10 DEF Edit, ClickCancel, UploadApp, vars, Slots
<1>11. QED
  BY <1>1, <1>2, <1>3, <1>4, <1>5, <1>6, <1>7, <1>8, <1>9, <1>10 DEF Next, Arrival, Service

LEMMA CopiesNext == PInv /\ [Next]_vars => Copies'
<1> SUFFICES ASSUME PInv, [Next]_vars PROVE Copies'
  OBVIOUS
<1>s. Slots /\ Device /\ Copies
  BY DEF PInv
<1> USE DEF copies, history
<1>c. Config \subseteq Form
  BY PageAssumption DEF Form, Shown
<1>1. CASE Edit
  <2>1. form' \in Form \cup {None} /\ (form' # None => currentConfig \in Config)
    <3>1. CASE form = None /\ UNCHANGED form
      BY <1>s, <3>1 DEF Copies
    <3>2. CASE form # None /\ \E f \in Fields : \E v \in Typed[f] : form' = [form EXCEPT ![f] = v]
      <4>1. PICK f \in Fields : \E v \in Typed[f] : form' = [form EXCEPT ![f] = v]
        BY <3>2
      <4>2. PICK v \in Typed[f] : form' = [form EXCEPT ![f] = v]
        BY <4>1
      <4>3. v \in Shown /\ form \in Form
        BY <1>s, <3>2 DEF Copies, Shown
      <4>4. form' \in Form
        BY <4>2, <4>3 DEF Form
      <4>5. QED
        BY <1>s, <3>2, <4>4 DEF Copies
    <3>3. QED
      BY <1>1, <3>1, <3>2 DEF Edit
  <2>2. QED
    BY <1>s, <1>1, <2>1 DEF Edit, Copies
<1>2. CASE ClickSave
  <2>1. Body \in Config /\ currentConfig \in Config
    BY <1>s, <1>2, BodyIsConfig DEF ClickSave, Copies
  <2>2. currentConfig' \in Config
    BY <1>2, <2>1, PageAssumption DEF ClickSave
  <2>3. QED
    BY <1>s, <1>2, <2>2 DEF ClickSave, Copies
<1>3. CASE ClickCancel
  BY <1>s, <1>c, <1>3 DEF ClickCancel, Copies
<1>4. CASE Reload \/ CheckVersion
  BY <1>4 DEF Reload, CheckVersion, ReloadTo, Copies
<1>5. CASE PowerFails \/ PowerReturns
  <2>1. UNCHANGED <<copies, loaded>> /\ trusted' \in BOOLEAN
    BY <1>5 DEF PowerFails, PowerReturns
  <2>2. QED
    BY <1>s, <2>1 DEF Copies
<1>6. ASSUME NEW o \in Ops, LoadArrives(o)
      PROVE  Copies'
  <2>1. ops[o].config \in Config /\ ops[o].sure \in BOOLEAN
    BY <1>s, <1>6 DEF Slots, Slot, Record, LoadArrives
  <2>2. QED
    BY <1>c, <1>6, <2>1 DEF LoadArrives, Copies
<1>7. ASSUME NEW o \in Ops, SaveArrives(o) \/ FailureArrives(o) \/ Service(o) \/ Lose(o)
      PROVE  Copies'
  <2>1. UNCHANGED <<copies, history>>
    BY <1>7 DEF SaveArrives, FailureArrives, Service, ServeLoad, ServeUnreadable, ServeSave,
                AnswerSave, RejectSave, Lose
  <2>2. QED
    BY <1>s, <2>1 DEF Copies
<1>8. CASE UploadApp \/ UNCHANGED vars
  BY <1>s, <1>8 DEF UploadApp, vars, Copies
<1>9. QED
  BY <1>1, <1>2, <1>3, <1>4, <1>5, <1>6, <1>7, <1>8 DEF Next, Arrival

LEMMA OneHandledNext == PInv /\ [Next]_vars => OneHandled'
<1> SUFFICES ASSUME PInv, [Next]_vars PROVE OneHandled'
  OBVIOUS
<1>s. Slots /\ Device /\ Copies /\ OneHandled
  BY DEF PInv
<1> USE DEF server
<1>1. CASE ClickSave
  <2>1. PICK o \in Ops :
           /\ ops[o] = Free
           /\ ops'[o] = IF Alone(o) THEN Save(Body, Body, TRUE) ELSE Save(Body, None, FALSE)
           /\ \A p \in Ops : p # o => Doubted(p)
    BY <1>s, <1>1, ClickSaveOps
  <2>2. \A p \in Ops : ops'[p].step = "handled" <=> ops[p].step = "handled"
    BY <2>1 DEF Save, Doubted, Free
  <2>3. QED
    BY <1>s, <1>1, <2>2 DEF ClickSave, OneHandled, storeVars
<1>2. CASE Reload \/ CheckVersion
  <2>1. PICK v : ReloadTo(v)
    BY <1>2 DEF Reload, CheckVersion
  <2>2. PICK o \in Ops : \E s \in BOOLEAN :
           /\ ops'[o] = Load(None, None, s) /\ ops[o].step # "handled"
           /\ \A p \in Ops : p # o =>
                \/ ops'[p] = Free /\ ops[p].step # "handled"
                \/ ops'[p].step = ops[p].step
    BY <1>s, <2>1, ReloadOps
  <2>3. \A p \in Ops : ops'[p].step = "handled" <=> ops[p].step = "handled"
    BY <2>2 DEF Load, Free
  <2>4. QED
    BY <1>s, <2>1, <2>3 DEF ReloadTo, OneHandled, storeVars
<1>3. CASE PowerFails
  <2>1. \A p \in Ops : ops'[p].step # "handled"
    BY <1>s, <1>3, PowerFailsOps DEF Doubted, Free
  <2>2. QED
    BY <1>s, <1>3, <2>1 DEF PowerFails, Fail, OneHandled
<1>4. CASE PowerReturns
  <2>1. \A p \in Ops : ops'[p].step # "handled"
    <3>1. \A p \in Ops : ops[p].step # "handled"
      BY <1>s, <1>4 DEF PowerReturns, Boot, OneHandled
    <3>2. QED
      BY <1>s, <1>4, <3>1, PowerReturnsOps DEF Doubted
  <2>2. QED
    BY <1>s, <1>4, <2>1 DEF PowerReturns, Boot, OneHandled
<1>5. ASSUME NEW o \in Ops, LoadArrives(o) \/ SaveArrives(o) \/ FailureArrives(o)
      PROVE  OneHandled'
  <2>1. Only(o) /\ ops[o].step # "handled" /\ ops'[o].step # "handled"
    BY <1>s, <1>5, FreeOps, SaveArrivesOps DEF LoadArrives, SaveArrives, FailureArrives, Free, Load
  <2>2. UNCHANGED <<storeVars, backend>>
    BY <1>5 DEF LoadArrives, SaveArrives, FailureArrives
  <2>3. QED
    BY <1>s, <2>1, <2>2 DEF Only, OneHandled, storeVars
<1>6. ASSUME NEW o \in Ops, ServeLoad(o) \/ ServeUnreadable(o) \/ RejectSave(o) \/ Lose(o)
      PROVE  OneHandled'
  <2>1. Only(o) /\ ops[o].step # "handled" /\ ops'[o].step # "handled"
    BY <1>s, <1>6, ServeLoadOps, EndOps DEF ServeLoad, ServeUnreadable, RejectSave, Lose, Goes, Free
  <2>2. UNCHANGED <<storeVars, backend>>
    BY <1>6 DEF ServeLoad, ServeUnreadable, RejectSave, Lose
  <2>3. QED
    BY <1>s, <2>1, <2>2 DEF Only, OneHandled, storeVars
<1>7. ASSUME NEW o \in Ops, ServeSave(o)
      PROVE  OneHandled'
  <2>1. Only(o) /\ ops'[o].step = "handled"
    BY <1>s, <1>7, ServeSaveOps
  <2>2. phase = "idle" /\ phase' = "changed" /\ backend = "device" /\ backend' = backend
    BY <1>7 DEF ServeSave, Change
  <2>3. \A p \in Ops : ops[p].step # "handled"
    BY <1>s, <2>2 DEF OneHandled
  <2>4. QED
    BY <2>1, <2>2, <2>3 DEF Only, OneHandled
<1>8. ASSUME NEW o \in Ops, AnswerSave(o)
      PROVE  OneHandled'
  <2>1. Only(o) /\ ops'[o].step # "handled"
    BY <1>s, <1>8, EndOps DEF AnswerSave, Goes, Free
  <2>2. phase' = "idle" /\ backend' = backend /\ ops[o].step = "handled"
    BY <1>8 DEF AnswerSave, Keep
  <2>3. backend = "device" /\ \A p \in Ops : p # o => ops[p].step # "handled"
    BY <1>s, <2>2 DEF OneHandled
  <2>4. QED
    BY <2>1, <2>2, <2>3 DEF Only, OneHandled
<1>9. CASE Edit \/ ClickCancel \/ UploadApp \/ UNCHANGED vars
  <2>1. UNCHANGED <<storeVars, backend, ops>>
    BY <1>9 DEF Edit, ClickCancel, UploadApp, vars
  <2>2. QED
    BY <1>s, <2>1 DEF storeVars, OneHandled
<1>10. QED
  BY <1>1, <1>2, <1>3, <1>4, <1>5, <1>6, <1>7, <1>8, <1>9 DEF Next, Arrival, Service

(* The history of the requests that change nothing between others. *)
LEMMA OnlySole ==
  ASSUME Sole, NEW o \in Ops, Only(o), ops[o] # Free, ops'[o].sure => ops[o].sure,
         trusted' = trusted
  PROVE  Sole'
<1>1. ~trusted'
  BY DEF Sole
<1>2. ASSUME NEW p \in Ops, ops'[p].sure PROVE Alone(p)'
  <2>1. ops[p].sure
    BY <1>2 DEF Only
  <2>2. Alone(p)
    BY <2>1 DEF Sole
  <2>3. p = o
    BY <2>2 DEF Alone
  <2>4. QED
    BY <2>2, <2>3 DEF Alone, Only
<1>3. QED
  BY <1>1, <1>2 DEF Sole

LEMMA SoleNext == PInv /\ [Next]_vars => Sole'
<1> SUFFICES ASSUME PInv, [Next]_vars PROVE Sole'
  OBVIOUS
<1>s. Slots /\ Device /\ Copies /\ Sole
  BY DEF PInv
<1>n. Free.step = "none" /\ Free.kind = "free" /\ ~Free.sure
  BY DEF Free
<1> USE DEF history
<1>1. CASE ClickSave
  <2>1. PICK o \in Ops :
           /\ ops[o] = Free
           /\ ops'[o] = IF Alone(o) THEN Save(Body, Body, TRUE) ELSE Save(Body, None, FALSE)
           /\ \A p \in Ops : p # o => Doubted(p)
    BY <1>s, <1>1, ClickSaveOps
  <2>2. ASSUME NEW p \in Ops, ops'[p].sure PROVE Alone(p)'
    <3>1. p = o
      BY <2>1, <2>2 DEF Doubted
    <3>2. Alone(o)
      BY <2>1, <2>2, <3>1 DEF Save
    <3>3. QED
      BY <2>1, <3>1, <3>2 DEF Alone, Doubted
  <2>3. QED
    BY <1>1, <2>2 DEF ClickSave, Sole
<1>2. CASE Reload \/ CheckVersion
  <2>1. PICK v : ReloadTo(v)
    BY <1>2 DEF Reload, CheckVersion
  <2>2. PICK o \in Ops, s \in BOOLEAN :
           /\ ops'[o] = Load(None, None, s)
           /\ s => \A p \in Ops : p # o => ops'[p] = Free
           /\ \A p \in Ops : p # o => ops'[p] = Free \/ ~ops'[p].sure
    BY <1>s, <2>1, ReloadOps
  <2>3. ASSUME NEW p \in Ops, ops'[p].sure PROVE Alone(p)'
    <3>1. p = o
      BY <1>n, <2>2, <2>3
    <3>2. s
      BY <2>2, <2>3, <3>1 DEF Load
    <3>3. QED
      BY <2>2, <3>1, <3>2 DEF Alone
  <2>4. QED
    BY <2>1, <2>3 DEF ReloadTo, Sole
<1>3. CASE PowerFails
  <2>1. \A p \in Ops : (ops'[p].sure => ops[p].sure) /\ (ops[p] = Free => ops'[p] = Free)
    BY <1>s, <1>3, <1>n, PowerFailsOps DEF Doubted
  <2>2. trusted' => trusted
    BY <1>3 DEF PowerFails
  <2>3. QED
    BY <1>s, <2>1, <2>2 DEF Sole, Alone
<1>4. CASE PowerReturns
  <2>1. \A p \in Ops : (ops'[p].sure => ops[p].sure) /\ (ops[p] = Free => ops'[p] = Free)
    BY <1>s, <1>4, PowerReturnsOps DEF Doubted
  <2>2. trusted' => trusted
    BY <1>4 DEF PowerReturns
  <2>3. QED
    BY <1>s, <2>1, <2>2 DEF Sole, Alone
<1>5. ASSUME NEW o \in Ops, LoadArrives(o)
      PROVE  Sole'
  <2>1. Only(o) /\ ops'[o] = Free
    BY <1>s, <1>5, FreeOps DEF LoadArrives
  <2>2. ASSUME NEW p \in Ops, ops'[p].sure PROVE Alone(p)'
    <3>1. p # o
      BY <1>n, <2>1, <2>2
    <3>2. ops[p].sure
      BY <2>1, <2>2, <3>1 DEF Only
    <3>3. ops[o] = Free
      BY <1>s, <3>1, <3>2 DEF Sole, Alone
    <3>4. QED
      BY <1>5, <1>n, <3>3 DEF LoadArrives
  <2>3. ASSUME trusted', NEW p \in Ops PROVE ops'[p] = Free
    <3>1. ops[o].sure
      BY <1>5, <2>3 DEF LoadArrives
    <3>2. QED
      BY <1>s, <2>1, <3>1 DEF Sole, Alone, Only
  <2>4. QED
    BY <2>2, <2>3 DEF Sole
<1>6. ASSUME NEW o \in Ops, SaveArrives(o) \/ FailureArrives(o)
      PROVE  Sole'
  <2>1. ops[o] # Free /\ trusted' = trusted
    BY <1>6, <1>n DEF SaveArrives, FailureArrives
  <2>2. Only(o) /\ (ops'[o].sure => ops[o].sure)
    <3>1. CASE SaveArrives(o)
      <4>1. Only(o) /\ ops'[o] = Load(ops[o].asked, ops[o].was, ops[o].sure)
        BY <1>s, <3>1, SaveArrivesOps
      <4>2. QED
        BY <4>1 DEF Load
    <3>2. CASE FailureArrives(o)
      <4>1. Only(o) /\ ops'[o] = Free
        BY <1>s, <3>2, FreeOps DEF FailureArrives
      <4>2. QED
        BY <1>n, <4>1
    <3>3. QED
      BY <1>6, <3>1, <3>2
  <2>3. QED
    BY <1>s, <2>1, <2>2, OnlySole
<1>7. ASSUME NEW o \in Ops, Service(o) \/ Lose(o)
      PROVE  Sole'
  <2>1. ops[o] # Free /\ trusted' = trusted
    BY <1>7, <1>n DEF Service, ServeLoad, ServeUnreadable, ServeSave, AnswerSave, RejectSave, Lose
  <2>2. Only(o) /\ (ops'[o].sure => ops[o].sure)
    <3>1. CASE ServeLoad(o)
      BY <1>s, <3>1, ServeLoadOps DEF Goes
    <3>2. CASE ServeSave(o)
      BY <1>s, <3>2, ServeSaveOps
    <3>3. CASE AnswerSave(o) \/ ServeUnreadable(o) \/ RejectSave(o) \/ Lose(o)
      BY <1>s, <1>n, <3>3, EndOps DEF AnswerSave, ServeUnreadable, RejectSave, Lose, Goes
    <3>4. QED
      BY <1>7, <3>1, <3>2, <3>3 DEF Service
  <2>3. QED
    BY <1>s, <2>1, <2>2, OnlySole
<1>8. CASE Edit \/ ClickCancel \/ UploadApp \/ UNCHANGED vars
  <2>1. UNCHANGED <<trusted, ops>>
    BY <1>8 DEF Edit, ClickCancel, UploadApp, vars
  <2>2. QED
    BY <1>s, <2>1 DEF Sole, Alone
<1>9. QED
  BY <1>1, <1>2, <1>3, <1>4, <1>5, <1>6, <1>7, <1>8 DEF Next, Arrival

(* What is the configuration in use, or will be, stays it when power fails *)
(* and nothing is lost, and when it returns and the memory is usable.      *)
Becomes(c)        == /\ phase' = "idle" => c = mem'
                     /\ phase' = "off"  => c = Brings'
StandsAfter(b, w) == /\ phase' = "idle" => Taken(mem', b, w)
                     /\ phase' = "off"  => Taken(Brings', b, w)

LEMMA NothingLost ==
  ASSUME Device, OneHandled, Durable, NEW c, NEW w,
         \/ PowerFails /\ ~failed /\ usable /\ phase # "changed"
         \/ PowerReturns /\ usable'
  PROVE  (Same(c) => Becomes(c)) /\ (Stands(c, w) => StandsAfter(c, w))
<1>1. CASE PowerFails /\ ~failed /\ usable /\ phase # "changed"
  <2>1. phase = "idle" /\ phase' = "off" /\ kept' = kept
    BY <1>1 DEF PowerFails, Fail, Device
  <2>2. mem = Brings /\ Brings' = Brings
    BY <1>1, <2>1 DEF Durable, Brings
  <2>3. QED
    BY <2>1, <2>2 DEF Same, Stands, Becomes, StandsAfter
<1>2. CASE PowerReturns /\ usable'
  <2>1. phase = "off" /\ phase' = "idle"
    BY <1>2 DEF PowerReturns, Boot
  <2>2. mem' = Brings
    BY <1>2, StoreAssumption DEF PowerReturns, Boot, Brings, OneHandled
  <2>3. QED
    BY <2>1, <2>2 DEF Same, Stands, Becomes, StandsAfter
<1>3. QED
  BY <1>1, <1>2

(* A step that changes one request and nothing of the store. *)
LEMMA OnlyTruth ==
  ASSUME Truth, NEW o \in Ops, Only(o), UNCHANGED <<storeVars, loaded, trusted>>,
         \/ ops'[o].kind # "load" \/ ops'[o].step # "answered" \/ ~ops'[o].sure
         \/ Becomes(ops'[o].config)
  PROVE  Truth'
<1>1. ASSUME NEW p \in Ops, ops'[p].sure, ops'[p].kind = "load", ops'[p].step = "answered"
      PROVE  Same(ops[p].config)'
  <2>1. CASE p = o
    BY <1>1, <2>1 DEF Becomes, Same, Brings, storeVars
  <2>2. CASE p # o
    BY <1>1, <2>2 DEF Only, Truth, Same, Brings, storeVars
  <2>3. QED
    BY <2>1, <2>2
<1>2. QED
  BY <1>1 DEF Truth, Durable, Same, Brings, storeVars

LEMMA TruthNext == PInv /\ [Next]_vars => Truth'
<1> SUFFICES ASSUME PInv, [Next]_vars PROVE Truth'
  OBVIOUS
<1>s. Slots /\ Device /\ Copies /\ OneHandled /\ Sole /\ Truth
  BY DEF PInv
<1>d. Durable
  BY <1>s DEF Truth
<1>n. Free.step = "none" /\ Free.kind = "free" /\ ~Free.sure
  BY DEF Free
<1> USE DEF history
<1>1. CASE ClickSave
  <2>1. PICK o \in Ops :
           /\ ops'[o] = IF Alone(o) THEN Save(Body, Body, TRUE) ELSE Save(Body, None, FALSE)
           /\ \A p \in Ops : p # o => Doubted(p)
    BY <1>s, <1>1, ClickSaveOps
  <2>2. \A p \in Ops : ops'[p].sure => ops'[p].kind = "save"
    BY <2>1 DEF Save, Doubted
  <2>3. ~trusted' /\ UNCHANGED storeVars
    BY <1>1 DEF ClickSave
  <2>4. Durable'
    BY <1>d, <2>3 DEF Durable, storeVars
  <2>5. QED
    BY <2>2, <2>3, <2>4 DEF Truth
<1>2. CASE Reload \/ CheckVersion
  <2>1. PICK v : ReloadTo(v)
    BY <1>2 DEF Reload, CheckVersion
  <2>2. PICK o \in Ops, s \in BOOLEAN :
           /\ ops'[o] = Load(None, None, s)
           /\ \A p \in Ops : p # o => ops'[p] = Free \/ ~ops'[p].sure
    BY <1>s, <2>1, ReloadOps
  <2>3. \A p \in Ops : ops'[p].sure => ops'[p].step # "answered"
    BY <1>n, <2>2 DEF Load
  <2>4. ~trusted' /\ UNCHANGED storeVars
    BY <2>1 DEF ReloadTo
  <2>5. Durable'
    BY <1>d, <2>4 DEF Durable, storeVars
  <2>6. QED
    BY <2>3, <2>4, <2>5 DEF Truth
<1>3. CASE PowerFails
  <2>1. phase' = "off" /\ loaded' = loaded
    BY <1>3 DEF PowerFails, Fail
  <2>2. Durable'
    BY <2>1 DEF Durable
  <2>3. trusted' => Becomes(loaded)
    <3>1. trusted' => trusted /\ ~failed /\ usable /\ phase # "changed"
      BY <1>3 DEF PowerFails
    <3>2. QED
      BY <1>3, <1>s, <1>d, <3>1, NothingLost DEF Truth
  <2>4. ASSUME NEW p \in Ops, ops'[p].sure, ops'[p].kind = "load", ops'[p].step = "answered"
        PROVE  Becomes(ops'[p].config)
    <3>1. ops'[p] = ops[p] /\ ~failed /\ usable /\ phase # "changed"
      BY <1>3, <1>s, <1>n, <2>4, PowerFailsOps DEF Doubted
    <3>2. Same(ops[p].config)
      BY <1>s, <2>4, <3>1 DEF Truth
    <3>3. QED
      BY <1>3, <1>s, <1>d, <3>1, <3>2, NothingLost
  <2>5. QED
    BY <2>1, <2>2, <2>3, <2>4 DEF Truth, Becomes, Same
<1>4. CASE PowerReturns
  <2>1. loaded' = loaded
    BY <1>4 DEF PowerReturns
  <2>2. Durable'
    BY <1>4, <1>s, StoreAssumption DEF PowerReturns, Boot, Durable, OneHandled
  <2>3. trusted' => Becomes(loaded)
    <3>1. trusted' => trusted /\ usable'
      BY <1>4 DEF PowerReturns
    <3>2. QED
      BY <1>4, <1>s, <1>d, <3>1, NothingLost DEF Truth
  <2>4. ASSUME NEW p \in Ops, ops'[p].sure, ops'[p].kind = "load", ops'[p].step = "answered"
        PROVE  Becomes(ops'[p].config)
    <3>1. ops'[p] = ops[p] /\ usable'
      BY <1>4, <1>s, <2>4, PowerReturnsOps DEF Doubted
    <3>2. Same(ops[p].config)
      BY <1>s, <2>4, <3>1 DEF Truth
    <3>3. QED
      BY <1>4, <1>s, <1>d, <3>1, <3>2, NothingLost
  <2>5. QED
    BY <2>1, <2>2, <2>3, <2>4 DEF Truth, Becomes, Same
<1>5. ASSUME NEW o \in Ops, LoadArrives(o)
      PROVE  Truth'
  <2>1. Only(o) /\ ops'[o] = Free
    BY <1>s, <1>5, FreeOps DEF LoadArrives
  <2>2. UNCHANGED storeVars
    BY <1>5 DEF LoadArrives
  <2>3. trusted' => Same(loaded')
    BY <1>5, <1>s DEF LoadArrives, Truth
  <2>4. ASSUME NEW p \in Ops, ops'[p].sure, ops'[p].kind = "load", ops'[p].step = "answered"
        PROVE  Same(ops'[p].config)
    BY <1>s, <1>n, <2>1, <2>4 DEF Only, Truth
  <2>5. QED
    BY <1>d, <2>2, <2>3, <2>4 DEF Truth, Same, Durable, Brings, storeVars
<1>6. ASSUME NEW o \in Ops, SaveArrives(o) \/ FailureArrives(o)
      PROVE  Truth'
  <2>1. Only(o) /\ ops'[o].step # "answered"
    <3>1. CASE SaveArrives(o)
      <4>1. Only(o) /\ ops'[o] = Load(ops[o].asked, ops[o].was, ops[o].sure)
        BY <1>s, <3>1, SaveArrivesOps
      <4>2. QED
        BY <4>1 DEF Load
    <3>2. CASE FailureArrives(o)
      <4>1. Only(o) /\ ops'[o] = Free
        BY <1>s, <3>2, FreeOps DEF FailureArrives
      <4>2. QED
        BY <1>n, <4>1
    <3>3. QED
      BY <1>6, <3>1, <3>2
  <2>2. UNCHANGED <<storeVars, loaded, trusted>>
    BY <1>6 DEF SaveArrives, FailureArrives
  <2>3. QED
    BY <1>s, <2>1, <2>2, OnlyTruth
<1>7. ASSUME NEW o \in Ops, ServeLoad(o)
      PROVE  Truth'
  <2>1. Only(o) /\ ops'[o].config = mem
    BY <1>s, <1>7, ServeLoadOps DEF Goes
  <2>2. phase = "idle" /\ UNCHANGED <<storeVars, loaded, trusted>>
    BY <1>7 DEF ServeLoad
  <2>3. Becomes(ops'[o].config)
    BY <2>1, <2>2 DEF Becomes, storeVars
  <2>4. QED
    BY <1>s, <2>1, <2>2, <2>3, OnlyTruth
<1>8. ASSUME NEW o \in Ops, ServeUnreadable(o) \/ RejectSave(o) \/ Lose(o)
      PROVE  Truth'
  <2>1. Only(o) /\ ops'[o].step # "answered"
    BY <1>s, <1>8, <1>n, EndOps DEF ServeUnreadable, RejectSave, Lose, Goes
  <2>2. UNCHANGED <<storeVars, loaded, trusted>>
    BY <1>8 DEF ServeUnreadable, RejectSave, Lose
  <2>3. QED
    BY <1>s, <2>1, <2>2, OnlyTruth
<1>9. ASSUME NEW o \in Ops, ServeSave(o) \/ AnswerSave(o)
      PROVE  Truth'
  <2>1. ops[o] # Free /\ ops[o].kind = "save"
    BY <1>s, <1>9, <1>n DEF ServeSave, AnswerSave, Slots, Slot
  <2>2. Only(o) /\ ops'[o].kind # "load"
    <3>1. CASE ServeSave(o)
      BY <1>s, <3>1, ServeSaveOps
    <3>2. CASE AnswerSave(o)
      BY <1>s, <3>2, <1>n, <2>1, EndOps DEF AnswerSave, Goes
    <3>3. QED
      BY <1>9, <3>1, <3>2
  <2>3. ~trusted'
    BY <1>s, <1>9, <2>1 DEF Sole, ServeSave, AnswerSave
  <2>4. \A p \in Ops : p # o => ~ops[p].sure
    BY <1>s, <2>1 DEF Sole, Alone
  <2>5. Durable'
    <3>1. CASE ServeSave(o)
      <4>1. phase' = "changed"
        BY <3>1 DEF ServeSave, Change
      <4>2. QED
        BY <4>1 DEF Durable
    <3>2. CASE AnswerSave(o)
      BY <1>s, <3>2, StoreAssumption DEF AnswerSave, Keep, Durable, Device
    <3>3. QED
      BY <1>9, <3>1, <3>2
  <2>6. QED
    BY <2>2, <2>3, <2>4, <2>5 DEF Truth, Only
<1>10. CASE Edit \/ ClickCancel \/ UploadApp \/ UNCHANGED vars
  <2>1. UNCHANGED <<storeVars, ops, loaded, trusted>>
    BY <1>10 DEF Edit, ClickCancel, UploadApp, vars
  <2>2. QED
    BY <1>s, <2>1 DEF Truth, Same, Durable, Brings, storeVars
<1>11. QED
  BY <1>1, <1>2, <1>3, <1>4, <1>5, <1>6, <1>7, <1>8, <1>9, <1>10 DEF Next, Arrival, Service

(* A step that changes one request and nothing of the store. *)
LEMMA OnlyAsked ==
  ASSUME Asked, NEW o \in Ops, Only(o), UNCHANGED storeVars, Course(ops'[o])
  PROVE  Asked'
<1>1. \A p \in Ops : Course(ops'[p])
  BY DEF Only, Asked
<1>2. QED
  BY <1>1 DEF Asked, Course, Stands, Brings, storeVars

LEMMA AskedNext == PInv /\ [Next]_vars => Asked'
<1> SUFFICES ASSUME PInv, [Next]_vars PROVE Asked'
  OBVIOUS
<1>s. Slots /\ Device /\ Copies /\ OneHandled /\ Sole /\ Asked /\ Durable
  BY DEF PInv, Truth
<1>n. Free.step = "none" /\ Free.kind = "free" /\ ~Free.sure
  BY DEF Free
<1>f. Course(Free)
  BY <1>n DEF Course
<1>1. CASE ClickSave
  <2>1. PICK o \in Ops :
           /\ ops'[o] = IF Alone(o) THEN Save(Body, Body, TRUE) ELSE Save(Body, None, FALSE)
           /\ \A p \in Ops : p # o => Doubted(p)
    BY <1>s, <1>1, ClickSaveOps
  <2>2. \A p \in Ops : ops'[p].sure => /\ ops'[p].kind = "save" /\ ops'[p].step = "sent"
                                       /\ ops'[p].config = ops'[p].asked
    BY <2>1 DEF Save, Doubted
  <2>3. QED
    BY <2>2 DEF Asked, Course
<1>2. CASE Reload \/ CheckVersion
  <2>1. PICK v : ReloadTo(v)
    BY <1>2 DEF Reload, CheckVersion
  <2>2. PICK o \in Ops, s \in BOOLEAN :
           /\ ops'[o] = Load(None, None, s)
           /\ \A p \in Ops : p # o => ops'[p] = Free \/ ~ops'[p].sure
    BY <1>s, <2>1, ReloadOps
  <2>3. \A p \in Ops : ops'[p].sure => ops'[p].asked = None
    BY <1>n, <2>2 DEF Load
  <2>4. QED
    BY <2>3 DEF Asked, Course
<1>3. CASE PowerFails \/ (PowerReturns /\ usable')
  <2>1. ASSUME NEW p \in Ops, ops'[p].sure, ops'[p].asked # None
        PROVE  /\ ops'[p] = ops[p] /\ ops[p].step # "handled"
               /\ Stands(ops[p].asked, ops[p].was) => StandsAfter(ops[p].asked, ops[p].was)
    <3>1. CASE PowerFails
      <4>1. ops'[p] = ops[p] /\ ops[p].step # "handled" /\ ~failed /\ usable /\ phase # "changed"
        BY <1>s, <1>n, <2>1, <3>1, PowerFailsOps DEF Doubted
      <4>2. QED
        BY <1>s, <3>1, <4>1, NothingLost
    <3>2. CASE PowerReturns /\ usable'
      <4>1. ops'[p] = ops[p]
        BY <1>s, <2>1, <3>2, PowerReturnsOps
      <4>2. ops[p].step # "handled"
        BY <1>s, <3>2 DEF PowerReturns, Boot, OneHandled
      <4>3. QED
        BY <1>s, <3>2, <4>1, <4>2, NothingLost
    <3>3. QED
      BY <1>3, <3>1, <3>2
  <2>2. ASSUME NEW p \in Ops, ops'[p].sure, ops'[p].asked # None
        PROVE  Course(ops[p])'
    BY <1>s, <2>1, <2>2 DEF Asked, Course, StandsAfter, Stands
  <2>3. QED
    BY <2>2 DEF Asked, Course
<1>4. CASE PowerReturns /\ ~usable'
  BY <1>s, <1>4, PowerReturnsOps DEF Doubted, Asked, Course
<1>5. ASSUME NEW o \in Ops, LoadArrives(o) \/ FailureArrives(o)
      PROVE  Asked'
  <2>1. Only(o) /\ ops'[o] = Free
    BY <1>s, <1>5, FreeOps DEF LoadArrives, FailureArrives
  <2>2. QED
    BY <1>s, <1>f, <1>5, <2>1, OnlyAsked DEF LoadArrives, FailureArrives
<1>6. ASSUME NEW o \in Ops, SaveArrives(o)
      PROVE  Asked'
  <2>1. Only(o) /\ ops'[o] = Load(ops[o].asked, ops[o].was, ops[o].sure)
    BY <1>s, <1>6, SaveArrivesOps
  <2>2. /\ ops'[o].kind = "load" /\ ops'[o].step = "sent"
        /\ ops'[o].asked = ops[o].asked /\ ops'[o].was = ops[o].was /\ ops'[o].sure = ops[o].sure
    BY <2>1 DEF Load
  <2>3. Course(ops'[o])
    BY <1>s, <1>6, <2>2 DEF SaveArrives, Asked, Course
  <2>4. QED
    BY <1>s, <1>6, <2>1, <2>3, OnlyAsked DEF SaveArrives
<1>7. ASSUME NEW o \in Ops, ServeLoad(o)
      PROVE  Asked'
  <2>1. Goes(o, "answered", mem)
    BY <1>s, <1>7, ServeLoadOps
  <2>2. Course(ops[o]) /\ ops[o].kind = "load" /\ ops[o].step = "sent" /\ phase = "idle"
    BY <1>s, <1>7 DEF ServeLoad, Asked
  <2>3. /\ ops'[o].kind = "load" /\ ops'[o].step = "answered" /\ ops'[o].config = mem
        /\ ops'[o].asked = ops[o].asked /\ ops'[o].was = ops[o].was /\ ops'[o].sure = ops[o].sure
    BY <2>1, <2>2 DEF Goes
  <2>4. Course(ops'[o])
    BY <2>2, <2>3 DEF Course, Stands
  <2>5. QED
    BY <1>s, <1>7, <2>1, <2>4, OnlyAsked DEF ServeLoad, Goes
<1>8. ASSUME NEW o \in Ops, ServeUnreadable(o) \/ RejectSave(o) \/ Lose(o)
      PROVE  Asked'
  <2>1. Only(o) /\ (ops'[o] = Free \/ ops'[o].step = "failed")
    BY <1>s, <1>8, EndOps DEF ServeUnreadable, RejectSave, Lose, Goes
  <2>2. Course(ops'[o])
    BY <1>f, <2>1 DEF Course
  <2>3. QED
    BY <1>s, <1>8, <2>1, <2>2, OnlyAsked DEF ServeUnreadable, RejectSave, Lose
<1>9. ASSUME NEW o \in Ops, ServeSave(o) \/ AnswerSave(o)
      PROVE  Asked'
  <2>1. ops[o] # Free /\ ops[o].kind = "save"
    BY <1>s, <1>9, <1>n DEF ServeSave, AnswerSave, Slots, Slot
  <2>2. \A p \in Ops : p # o => ~ops[p].sure
    BY <1>s, <2>1 DEF Sole, Alone
  <2>3. Only(o) /\ Course(ops[o])'
    <3>1. CASE ServeSave(o)
      <4>1. /\ Only(o) /\ ops'[o].step = "handled" /\ ops'[o].kind = "save"
            /\ ops'[o].asked = ops[o].asked /\ ops'[o].sure = ops[o].sure
            /\ ops[o].sure => ops'[o].was = mem
        BY <1>s, <3>1, ServeSaveOps
      <4>2. PICK n \in 0..Cardinality(Fields), v \in Value : Change(Merged(ops[o].config, n, v))
        BY <3>1 DEF ServeSave
      <4>3. ops[o].step = "sent" /\ ops[o].config \in Config
        BY <1>s, <3>1 DEF ServeSave, Slots, Slot
      <4>4. Taken(mem', ops[o].config, mem)
        BY <1>s, <4>2, <4>3, MergedIsConfig DEF Change, Device
      <4>5. ops[o].sure /\ ops[o].asked # None => ops[o].config = ops[o].asked
        BY <1>s, <2>1, <4>3 DEF Asked, Course
      <4>6. ops'[o].sure /\ ops'[o].asked # None => Taken(mem', ops'[o].asked, ops'[o].was)
        BY <4>1, <4>4, <4>5
      <4>7. QED
        BY <4>1, <4>6 DEF Course
    <3>2. CASE AnswerSave(o)
      <4>1. Only(o) /\ (ops'[o] = Free \/ Goes(o, "answered", None))
        BY <1>s, <3>2, EndOps DEF AnswerSave, Goes
      <4>2. mem' = mem /\ phase' = "idle" /\ ops[o].step = "handled"
        BY <3>2 DEF AnswerSave, Keep
      <4>3. ops[o].sure /\ ops[o].asked # None => Taken(mem, ops[o].asked, ops[o].was)
        BY <1>s, <4>2 DEF Asked, Course
      <4>4. CASE ops'[o] = Free
        BY <1>n, <4>1, <4>4 DEF Course
      <4>5. CASE Goes(o, "answered", None)
        BY <2>1, <4>1, <4>2, <4>3, <4>5 DEF Goes, Course, Stands
      <4>6. QED
        BY <4>1, <4>4, <4>5
    <3>3. QED
      BY <1>9, <3>1, <3>2
  <2>4. ASSUME NEW p \in Ops, p # o PROVE ~ops'[p].sure
    BY <2>2, <2>3, <2>4 DEF Only
  <2>5. QED
    BY <2>3, <2>4 DEF Asked, Course
<1>10. CASE Edit \/ ClickCancel \/ UploadApp \/ UNCHANGED vars
  <2>1. UNCHANGED <<storeVars, ops>>
    BY <1>10 DEF Edit, ClickCancel, UploadApp, vars
  <2>2. QED
    <3>1. UNCHANGED <<phase, mem, kept, ops>>
      BY <2>1 DEF storeVars
    <3>2. ASSUME NEW p \in Ops PROVE Course(ops[p])'
      <4>1. Course(ops[p])
        BY <1>s DEF Asked
      <4>2. QED
        BY <3>1, <4>1 DEF Course, Stands, Brings
    <3>3. QED
      BY <3>2 DEF Asked
<1>11. CASE PowerFails \/ PowerReturns
  BY <1>3, <1>4, <1>11
<1>12. ASSUME NEW o \in Ops, Arrival(o) \/ Service(o) \/ Lose(o)
       PROVE  Asked'
  BY <1>5, <1>6, <1>7, <1>8, <1>9, <1>12 DEF Arrival, Service
<1>13. QED
  BY <1>1, <1>2, <1>10, <1>11, <1>12 DEF Next

LEMMA PInvHolds == Spec => []PInv
<1>1. Init => PInv
  <2> SUFFICES ASSUME Init PROVE PInv
    OBVIOUS
  <2>1. Device
    <3>1. fails \in 0..MaxFails /\ edits \in 0..MaxEdits
      BY PageAssumption DEF Init
    <3>2. QED
      BY <3>1, StoreAssumption DEF Init, StoreInit, Device
  <2>2. \A o \in Ops : ops[o] = Load(None, None, TRUE) \/ ops[o] = Free
    BY DEF Init
  <2>3. Slots
    <3>1. Load(None, None, TRUE) \in Record /\ Free \in Record
      BY LoadIsRecord, FreeIsRecord
    <3>2. ops \in [Ops -> Record]
      BY <3>1 DEF Init
    <3>3. Slot(Load(None, None, TRUE)) /\ Slot(Free)
      BY FreeSlot DEF Load, Slot
    <3>4. QED
      BY <2>2, <3>2, <3>3 DEF Slots
  <2>4. \A o \in Ops : ops[o].step \in {"sent", "none"} /\ ops[o].asked = None
    BY <2>2 DEF Load, Free
  <2>5. OneHandled
    BY <2>4 DEF Init, StoreInit, OneHandled
  <2>6. Copies
    BY DEF Init, Copies
  <2>7. Sole
    <3>1. ASSUME NEW o \in Ops, ops[o].sure PROVE Alone(o)
      <4>1. o = 1
        BY <3>1 DEF Init, Free
      <4>2. QED
        BY <4>1 DEF Init, Alone
    <3>2. QED
      BY <3>1 DEF Init, Sole
  <2>8. Truth
    BY <2>4 DEF Init, StoreInit, Truth, Durable
  <2>9. Asked
    BY <2>4 DEF Asked, Course
  <2>10. QED
    BY <2>1, <2>3, <2>5, <2>6, <2>7, <2>8, <2>9 DEF PInv
<1>2. PInv /\ [Next]_vars => PInv'
  BY DeviceNext, SlotsNext, OneHandledNext, CopiesNext, SoleNext, TruthNext, AskedNext DEF PInv
<1>3. QED
  BY <1>1, <1>2, PTL DEF Spec

-----------------------------------------------------------------------------
(* Type correctness: among other things, a save is being handled exactly   *)
(* when the device is changed, and an answer comes only to a page that     *)
(* still waits for it. *)
THEOREM Typing == Spec => []TypeOK
<1>1. PInv => TypeOK
  <2> SUFFICES ASSUME PInv PROVE TypeOK
    OBVIOUS
  <2>1. /\ phase \in {"off", "idle", "changed"} /\ mem \in Config /\ usable \in BOOLEAN
        /\ kept \in Config \cup {Nothing} /\ failed \in BOOLEAN
        /\ backend \in {"device", "mock"} /\ {files, page} \subseteq {1, Firmware}
        /\ fails \in 0..MaxFails /\ edits \in 0..MaxEdits
    BY DEF PInv, Device
  <2>2. /\ {currentConfig, originalConfig, loaded} \subseteq Config \cup {None}
        /\ form \in Form \cup {None} /\ isDirty \in BOOLEAN /\ trusted \in BOOLEAN
    BY DEF PInv, Copies
  <2>3. \A o \in Ops :
          /\ ops[o].kind \in {"free", "load", "save"}
          /\ ops[o].step \in {"none", "sent", "handled", "answered", "failed"}
          /\ ops[o].config \in Config \cup {None}
          /\ ops[o].step \in {"answered", "failed"} => ops[o].wanted
    BY DEF PInv, Slots, Slot, Record
  <2>4. phase = "changed" <=> \E o \in Ops : ops[o].step = "handled"
    BY DEF PInv, OneHandled
  <2>5. QED
    BY <2>1, <2>2, <2>3, <2>4 DEF TypeOK
<1>2. QED
  BY PInvHolds, <1>1, PTL

(* With its buttons off the page shows the last load, in all its copies.   *)
THEOREM CleanPage == Spec => []CleanShowsLoaded
<1>1. PInv => CleanShowsLoaded
  BY DEF PInv, Copies, CleanShowsLoaded
<1>2. QED
  BY PInvHolds, <1>1, PTL

(* A page that nothing came between since it loaded shows the              *)
(* configuration in use, also after power has failed and returned.         *)
THEOREM TrustedPage == Spec => []TrustedPageIsTrue
<1>1. PInv => TrustedPageIsTrue
  BY DEF PInv, Copies, Truth, Same, TrustedPageIsTrue
<1>2. QED
  BY PInvHolds, <1>1, PTL

(* The load after a save that was alone shows the front of what was asked  *)
(* for, as the device takes it, and beyond it what the device had before:  *)
(* wherever the body broke off, whatever the device makes of a value, and  *)
(* though power may have failed in between.                                *)
THEOREM TakenIsShown == Spec => LoadShowsTaken
<1>1. PInv /\ [Next]_vars =>
        [\A o \in Ops : LoadArrives(o) /\ ops[o].asked # None /\ ops[o].sure =>
           Taken(form', ops[o].asked, ops[o].was)]_vars
  <2> SUFFICES ASSUME PInv, NEW o \in Ops, LoadArrives(o), ops[o].asked # None, ops[o].sure
               PROVE  Taken(form', ops[o].asked, ops[o].was)
    OBVIOUS
  <2>1. Course(ops[o])
    BY DEF PInv, Asked
  <2>2. QED
    BY <2>1 DEF LoadArrives, Course
<1>2. QED
  BY PInvHolds, <1>1, PTL DEF Spec, LoadShowsTaken
=============================================================================
