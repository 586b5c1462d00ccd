---------------------------- MODULE AuthDecision ----------------------------
(***************************************************************************)
(* What a race of authorities promises its caller, stated without any of   *)
(* the machinery of the race: rules 1 to 4 and 6 of the header of          *)
(* langs/rust/src/race.rs.  Answers arrive in any order, at most one per   *)
(* authority, and at some point one verdict is given that the answers      *)
(* received so far justify.  AuthRace implements this specification.       *)
(***************************************************************************)
CONSTANT Arms      \* the authorities a race may be run over

VARIABLES
  arms,            \* the arms of this race
  answer,          \* what each arm has answered so far
  verdict          \* the verdict given to the caller, "Pending" before

ArmFailure == {"Invalid", "Unavailable"}
ArmAnswer  == {"Ok"} \cup ArmFailure
Verdict    == {"Pending", "Authenticated", "Unauthenticated", "Degraded"}

(* A verdict is justified by what has been answered when it is given.      *)
Justified(v) ==
  \/ /\ v = "Authenticated"
     /\ \E a \in arms : answer[a] = "Ok"
  \/ /\ v = "Unauthenticated"
     /\ arms # {}
     /\ \A a \in arms : answer[a] = "Invalid"
  \/ /\ v = "Degraded"
     /\ \A a \in arms : answer[a] # "Ok"
     /\ arms = {} \/ \E a \in arms : answer[a] # "Invalid"

Init ==
  /\ arms \in SUBSET Arms
  /\ answer = [a \in Arms |-> "Running"]
  /\ verdict = "Pending"

(* An authority answers while nobody has decided yet.                      *)
Arrive(a, r) ==
  /\ verdict = "Pending"
  /\ a \in arms /\ answer[a] = "Running"
  /\ answer' = [answer EXCEPT ![a] = r]
  /\ UNCHANGED <<arms, verdict>>

(* The one verdict.                                                        *)
Decide(v) ==
  /\ verdict = "Pending"
  /\ Justified(v)
  /\ verdict' = v
  /\ UNCHANGED <<arms, answer>>

vars == <<arms, answer, verdict>>

Next ==
  \/ \E a \in Arms, r \in ArmAnswer : Arrive(a, r)
  \/ \E v \in Verdict : Decide(v)

Spec == Init /\ [][Next]_vars
=============================================================================
