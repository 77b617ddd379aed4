-------------------------- MODULE ProfileRegister --------------------------
(***************************************************************************)
(* What the application asks of its settings database, without SQL, locks   *)
(* or schema versions: a pair of tables that every call replaces at one     *)
(* instant between its start and its end. A call that returns has had its    *)
(* effect, one that raises has had none, and a crash leaves either.         *)
(*                                                                         *)
(* SettingsStore is shown to implement this module.                        *)
(***************************************************************************)
CONSTANTS Clients,   \* the application instances that share one database
          Requests,  \* the calls they make
          Tables,    \* the contents of the two tables
          Written(_, _),  \* the contents a call leaves, from those it finds
          None

VARIABLES table,    \* the contents
          request,  \* the call each client is in, or None
          effect,   \* the clients whose call has had its effect
          reply     \* how the last call of each client ended

registerVars == <<table, request, effect, reply>>

Init ==
  /\ table \in Tables
  /\ request = [p \in Clients |-> None]
  /\ effect = {}
  /\ reply = [p \in Clients |-> None]

Call(p, r) ==
  /\ request[p] = None
  /\ request' = [request EXCEPT ![p] = r]
  /\ reply' = [reply EXCEPT ![p] = None]
  /\ UNCHANGED <<table, effect>>

TakeEffect(p) ==
  /\ request[p] # None
  /\ p \notin effect
  /\ table' = Written(request[p], table)
  /\ effect' = effect \cup {p}
  /\ UNCHANGED <<request, reply>>

Return(p) ==
  /\ p \in effect
  /\ request' = [request EXCEPT ![p] = None]
  /\ effect' = effect \ {p}
  /\ reply' = [reply EXCEPT ![p] = "ok"]
  /\ UNCHANGED table

Raise(p) ==
  /\ request[p] # None
  /\ p \notin effect
  /\ request' = [request EXCEPT ![p] = None]
  /\ reply' = [reply EXCEPT ![p] = "error"]
  /\ UNCHANGED <<table, effect>>

Crash(p) ==
  /\ request[p] # None
  /\ request' = [request EXCEPT ![p] = None]
  /\ effect' = effect \ {p}
  /\ UNCHANGED <<table, reply>>

Next ==
  \E p \in Clients :
    \/ \E r \in Requests : Call(p, r)
    \/ TakeEffect(p)
    \/ Return(p)
    \/ Raise(p)
    \/ Crash(p)

Spec == Init /\ [][Next]_registerVars
=============================================================================
