----------------------------- MODULE MCEventBus -----------------------------
(***************************************************************************)
(* Instances of EventBus for TLC.  "emergency" is CRITICAL, "goto" HIGH,   *)
(* "speak" NORMAL and "level" LOW.                                         *)
(***************************************************************************)
EXTENDS EventBus

MCLevelOf == [k \in Kinds |-> [emergency |-> "CRITICAL", goto |-> "HIGH",
                               speak |-> "NORMAL", level |-> "LOW"][k]]
Everything == Kinds \union SysKinds

\* Two handlers that end before the fast path, of every event.
QuickWants == [s \in Subscribers |-> IF s = 1 THEN Everything ELSE Kinds]
QuickTakes == [s \in Subscribers |-> s - 1]
QuickEmits == [s \in Subscribers |-> {}]

\* The last handler is slower than the handler timeout.
SlowTakes == [s \in Subscribers |-> IF s = Cardinality(Subscribers) THEN Timeout + 1 ELSE 1]

\* The handler of a NORMAL event publishes HIGH ones.
RelayWants == [s \in Subscribers |-> IF s = 1 THEN {"speak"} ELSE {"goto", "level"}]
RelayEmits == [s \in Subscribers |-> IF s = 1 THEN {"goto"} ELSE {}]
=============================================================================
