------------------------------ MODULE RequestLog ------------------------------
(***************************************************************************)
(* What the updater promises to a client that submits requests             *)
(* (docs/updater-coordination-v2.md): a request is admitted once, its       *)
(* record only moves forward and is never forgotten, deployment code runs   *)
(* for it at most once and only after its record says that it began, and a  *)
(* newer start, of another request or of the host, closes it for good.      *)
(***************************************************************************)
EXTENDS Naturals

CONSTANTS
  Requests,  \* client request identifiers
  Host       \* the mark of a start that no request made

VARIABLES
  record,    \* what is on record for each request
  last,      \* the request that was started last, or Host
  executed   \* requests that deployment code ran for

logVars == <<record, last, executed>>

Rank == [absent |-> 0, admitted |-> 1, begun |-> 2, held |-> 3, ended |-> 4]

LogInit ==
  /\ record = [r \in Requests |-> "absent"]
  /\ last = Host
  /\ executed = {}

Admit(r) ==
  /\ record[r] = "absent"
  /\ record' = [record EXCEPT ![r] = "admitted"]
  /\ last' = r
  /\ UNCHANGED executed

\* A step may skip stages, but a record that ended without having begun stands
\* for a request that deployment code never ran for.
Advance(r) ==
  /\ last = r /\ record[r] # "absent"
  /\ \E to \in DOMAIN Rank :
       /\ Rank[to] > Rank[record[r]]
       /\ record' = [record EXCEPT ![r] = to]
  /\ UNCHANGED <<last, executed>>

Execute(r) ==
  /\ last = r /\ record[r] = "begun" /\ r \notin executed
  /\ executed' = executed \cup {r}
  /\ UNCHANGED <<record, last>>

HostStarts ==
  /\ last' = Host
  /\ UNCHANGED <<record, executed>>

LogNext ==
  \/ \E r \in Requests : Admit(r) \/ Advance(r) \/ Execute(r)
  \/ HostStarts

LogSpec == LogInit /\ [][LogNext]_logVars
==============================================================================
