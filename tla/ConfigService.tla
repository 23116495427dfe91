--------------------------- MODULE ConfigService ---------------------------
(***************************************************************************)
(* What the web UI expects of the agent behind Xsend: a configuration that *)
(* requests change one at a time, each request at most once and at a       *)
(* single instant between its submission and its answer.  A request that   *)
(* the configuration shell refuses changes nothing and is answered like    *)
(* any other: the answer does not tell.  If the device loses power, the    *)
(* requests under way are lost and, if there are any, so may be entries of *)
(* the configuration; nothing else changes.                                *)
(***************************************************************************)
CONSTANTS Keys, Vals, None, Requests,
          Refused  \* what may not be asked for

VARIABLES cfg,     \* the configured peers
          status,  \* idle, pending, applied, refused, answered, lost
          asked    \* what each request asks for

vars == <<cfg, status, asked>>

Asks == [key : Keys, val : Vals \cup {None}]

Init ==
  /\ cfg = [k \in Keys |-> None]
  /\ status = [r \in Requests |-> "idle"]
  /\ asked \in [Requests -> Asks]

Submit(r) ==
  /\ status[r] = "idle"
  /\ status' = [status EXCEPT ![r] = "pending"]
  /\ \E a \in Asks : asked' = [asked EXCEPT ![r] = a]
  /\ UNCHANGED cfg

Apply(r) ==
  /\ status[r] = "pending"
  /\ asked[r] \notin Refused
  /\ status' = [status EXCEPT ![r] = "applied"]
  /\ cfg' = [cfg EXCEPT ![asked[r].key] = asked[r].val]
  /\ UNCHANGED asked

Refuse(r) ==
  /\ status[r] = "pending"
  /\ asked[r] \in Refused
  /\ status' = [status EXCEPT ![r] = "refused"]
  /\ UNCHANGED <<cfg, asked>>

Answer(r) ==
  /\ status[r] \in {"applied", "refused"}
  /\ status' = [status EXCEPT ![r] = "answered"]
  /\ UNCHANGED <<cfg, asked>>

UnderWay == {r \in Requests : status[r] \in {"pending", "applied", "refused"}}

Crash ==
  /\ status' = [r \in Requests |-> IF r \in UnderWay THEN "lost" ELSE status[r]]
  /\ \E gone \in SUBSET (IF UnderWay = {} THEN {} ELSE Keys) :
       cfg' = [k \in Keys |-> IF k \in gone THEN None ELSE cfg[k]]
  /\ UNCHANGED asked

Next == Crash \/ \E r \in Requests : Submit(r) \/ Apply(r) \/ Refuse(r) \/ Answer(r)

Spec == Init /\ [][Next]_vars
=============================================================================
