----------------------------- MODULE MCWebPage -----------------------------
(* WebPage for TLC: the callsign, the switch of a band, and its time       *)
(* window, which the device does not keep.  The page turns the callsign    *)
(* into capitals ("b"); the device cuts it where its array is full         *)
(* ("long") and at a quote, of which it keeps the backslash ("quote",      *)
(* "slash").  A switch that breaks off is off, which is "A".               *)
EXTENDS WebPage

MCTop    == {"callsign"}
MCBands  == {"enabled", "timeWindow"}
MCFields == MCTop \cup MCBands
MCStored == {"callsign", "enabled"}
MCValue  == {"A", "B", "long", "quote", "slash"}
MCTyped  == [f \in MCFields |-> IF f = "callsign" THEN {"b", "long", "quote"} ELSE {"B"}]
MCReads  == [v \in MCValue \cup {"b"} |-> IF v = "b" THEN "B" ELSE v]
MCPlace  == [f \in MCFields |-> CASE f = "callsign" -> 1 [] f = "enabled" -> 2 [] OTHER -> 3]
Text     == [v \in MCValue |-> CASE v = "long" -> "A" [] v = "quote" -> "slash" [] OTHER -> v]
MCTakes  == [f \in MCFields |-> IF f = "callsign" THEN Text ELSE [v \in MCValue |-> v]]
MCCut    == [f \in MCFields |-> IF f = "enabled" THEN {"A"} ELSE {}]
MCBroken == {"slash"}
MCConfig == [MCFields -> MCValue]
MCDefaults == [f \in MCFields |-> "A"]
=============================================================================
