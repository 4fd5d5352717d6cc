---------------------------- MODULE ConfigStore ----------------------------
(***************************************************************************)
(* What the device promises about its configuration, whoever asks it for   *)
(* it: there is one copy in use and one that is kept.  A change of the one *)
(* in use is followed, before anything else can be asked, by an attempt to *)
(* keep it; and only a start brings the kept copy into use.                *)
(*                                                                         *)
(* WebServer implements this; WebPage is written against it.               *)
(***************************************************************************)
CONSTANTS
  Config,    (* the configurations                                          *)
  Defaults,  (* the one compiled in                                         *)
  Nothing    (* what is kept before anything is                             *)

ASSUME StoreAssumption == Defaults \in Config /\ Nothing \notin Config

VARIABLES
  phase,   (* off; idle: answers requests; changed: a change is being kept  *)
  mem,     (* the configuration in use                                      *)
  usable,  (* the memory that keeps it was found usable at the start        *)
  kept,    (* the configuration kept                                        *)
  failed   (* the last attempt to keep one failed                           *)

storeVars == <<phase, mem, usable, kept, failed>>

StoreInit ==
  /\ phase = "off" /\ mem = Defaults /\ usable = FALSE
  /\ kept = Nothing /\ failed = FALSE

(* The processor starts. *)
Boot ==
  /\ phase = "off" /\ phase' = "idle"
  /\ usable' \in BOOLEAN
  /\ mem' = IF usable' /\ kept # Nothing THEN kept ELSE Defaults
  /\ UNCHANGED <<kept, failed>>

(* Power fails. *)
Fail ==
  /\ phase # "off" /\ phase' = "off"
  /\ mem' = Defaults /\ usable' = FALSE /\ failed' = FALSE
  /\ UNCHANGED kept

(* A client sets the configuration to c. *)
Change(c) ==
  /\ phase = "idle" /\ phase' = "changed"
  /\ mem' = c
  /\ UNCHANGED <<usable, kept, failed>>

(* The configuration in use is kept, or cannot be. *)
Keep ==
  /\ phase = "changed" /\ phase' = "idle"
  /\ \/ usable /\ kept' = mem /\ failed' = FALSE
     \/ failed' = TRUE /\ UNCHANGED kept
  /\ UNCHANGED <<mem, usable>>

StoreNext == Boot \/ Fail \/ Keep \/ \E c \in Config : Change(c)

StoreSpec == StoreInit /\ [][StoreNext]_storeVars
-----------------------------------------------------------------------------
(* A configuration that is in use, and was not refused by the memory, is   *)
(* the one the next start brings back. *)
Durable ==
  phase = "idle" /\ usable /\ ~failed =>
    mem = IF kept = Nothing THEN Defaults ELSE kept
=============================================================================
