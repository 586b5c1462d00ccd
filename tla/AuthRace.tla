------------------------------ MODULE AuthRace ------------------------------
(***************************************************************************)
(* The dual-auth race: race_many and race of langs/rust/src/race.rs.       *)
(*                                                                         *)
(* The arms are futures in a FuturesUnordered.  They resolve in any order; *)
(* the loop takes resolved arms out one at a time until one of them is a   *)
(* success or none is left.  The whole loop runs under tokio's timeout,    *)
(* which polls the loop BEFORE it looks at the timer: an arm that has      *)
(* resolved when the deadline passes is still taken into account.          *)
(***************************************************************************)
EXTENDS Naturals

CONSTANTS
  Arms,          \* the arms a caller may pass
  Authority,     \* the authorities (two arms may name the same one)
  NoAuthority,   \* no authority: the outcome is not Authenticated
  AuthorityOf,   \* the authority each arm was passed with
  Claimed,       \* the authority the arm's own identity says it is from
  Deadline       \* the deadline of the race, in ticks

ASSUME AuthorityAssumption ==
  /\ AuthorityOf \in [Arms -> Authority]
  /\ Claimed \in [Arms -> Authority]
  /\ NoAuthority \notin Authority
ASSUME DeadlineAssumption == Deadline \in Nat

VARIABLES
  arms,          \* the arms this race was started with
  answer,        \* what each arm's future has resolved to
  failed,        \* the arms whose failure the loop has collected
  elapsed,       \* ticks since the race started
  outcome        \* what the caller gets

vars == <<arms, answer, failed, elapsed, outcome>>

ArmFailure == {"Invalid", "Unavailable"}
ArmResult  == {"Ok"} \cup ArmFailure

(* AuthOutcome.  An identity carries the authority stamped on it.          *)
Outcome ==
  [kind      : {"Pending", "Authenticated", "Unauthenticated", "Degraded"},
   authority : Authority \cup {NoAuthority},
   stamp     : Authority \cup {NoAuthority}]

NotAuthenticated(kind) ==
  [kind |-> kind, authority |-> NoAuthority, stamp |-> NoAuthority]
Pending == NotAuthenticated("Pending")

(* The winner's authority overrides whatever its identity claimed.         *)
AuthenticatedBy(a) ==
  [kind |-> "Authenticated", authority |-> AuthorityOf[a],
   stamp |-> AuthorityOf[a]]

(* Every arm has failed: only a unanimous Invalid is a definite no.        *)
VerdictOnFailures ==
  IF \A a \in arms : answer[a] = "Invalid"
    THEN NotAuthenticated("Unauthenticated")
    ELSE NotAuthenticated("Degraded")

Undecided == outcome = Pending
Ready(a)  == a \in arms \ failed /\ answer[a] # "Running"

TypeOK ==
  /\ arms \in SUBSET Arms
  /\ answer \in [Arms -> {"Running"} \cup ArmResult]
  /\ failed \in SUBSET arms
  /\ elapsed \in 0 .. Deadline
  /\ outcome \in Outcome

Init ==
  /\ arms \in SUBSET Arms
  /\ answer = [a \in Arms |-> "Running"]
  /\ failed = {}
  /\ elapsed = 0
  /\ outcome = Pending

-----------------------------------------------------------------------------
(* No authority configured: Degraded before anything is awaited.           *)
NoArms ==
  /\ Undecided
  /\ arms = {}
  /\ outcome' = NotAuthenticated("Degraded")
  /\ UNCHANGED <<arms, answer, failed, elapsed>>

(* An arm's future becomes ready.  When the race is decided the arms left  *)
(* in the set are dropped with it and resolve no more.                     *)
Resolve(a, r) ==
  /\ Undecided
  /\ a \in arms /\ answer[a] = "Running"
  /\ answer' = [answer EXCEPT ![a] = r]
  /\ UNCHANGED <<arms, failed, elapsed, outcome>>

(* The loop takes a success: it wins and is stamped.                       *)
TakeSuccess(a) ==
  /\ Undecided
  /\ Ready(a) /\ answer[a] = "Ok"
  /\ outcome' = AuthenticatedBy(a)
  /\ UNCHANGED <<arms, answer, failed, elapsed>>

(* The loop takes a failure; after the last one it decides at once.        *)
TakeFailure(a) ==
  /\ Undecided
  /\ Ready(a) /\ answer[a] \in ArmFailure
  /\ failed' = failed \cup {a}
  /\ outcome' = IF failed' = arms THEN VerdictOnFailures ELSE Pending
  /\ UNCHANGED <<arms, answer, elapsed>>

(* Mutant: the timer is looked at before the loop is polled.               *)
DeadlineBeforePoll ==
  /\ Undecided
  /\ arms # {}
  /\ elapsed = Deadline
  /\ outcome' = NotAuthenticated("Degraded")
  /\ UNCHANGED <<arms, answer, failed, elapsed>>

(* The timer is looked at only when the loop has nothing left to take.     *)
DeadlineExceeded ==
  /\ Undecided
  /\ arms # {}
  /\ elapsed = Deadline
  /\ ~ \E a \in arms : Ready(a)
  /\ outcome' = NotAuthenticated("Degraded")
  /\ UNCHANGED <<arms, answer, failed, elapsed>>

(* Mutant: no deadline bounds the race.                                    *)
TickForever ==
  /\ Undecided
  /\ elapsed' = elapsed + 1
  /\ UNCHANGED <<arms, answer, failed, outcome>>

(* Time passes up to the deadline, where the timer wakes the race.         *)
Tick ==
  /\ Undecided
  /\ elapsed < Deadline
  /\ elapsed' = elapsed + 1
  /\ UNCHANGED <<arms, answer, failed, outcome>>

Poll ==
  \/ NoArms
  \/ \E a \in Arms : TakeSuccess(a) \/ TakeFailure(a)
  \/ DeadlineExceeded

Decided == ~Undecided /\ UNCHANGED vars

Next ==
  \/ Poll
  \/ \E a \in Arms, r \in ArmResult : Resolve(a, r)
  \/ Tick
  \/ Decided

Spec == Init /\ [][Next]_vars

-----------------------------------------------------------------------------
(* The verdict the caller sees, as AuthDecision states it: rules 1 to 4 of *)
(* the header of race.rs.  A success that has been answered is never lost  *)
(* to a later failure or to the deadline, Unauthenticated is given only on *)
(* a unanimous Invalid, and anything short of that is Degraded.            *)
Decision == INSTANCE AuthDecision WITH verdict <- outcome.kind
ImplementsDecision == Decision!Spec

(* Rule 5: whoever is reported as the winner really answered Ok, and the   *)
(* identity handed out names that authority whatever the arm claimed       *)
(* (race.rs 68-75).                                                        *)
WinnerIsStamped ==
  outcome.kind = "Authenticated" =>
    /\ outcome.stamp = outcome.authority
    /\ \E a \in arms \ failed :
         AuthorityOf[a] = outcome.authority /\ answer[a] = "Ok"

(* Rule 2: one arm's failure does not end the race.  Before the deadline a *)
(* negative verdict is given only when every arm has answered (race.rs     *)
(* 66-91).                                                                 *)
SurvivorDecides ==
  /\ outcome.kind \in {"Unauthenticated", "Degraded"}
  /\ elapsed < Deadline
  => \A a \in arms : answer[a] # "Running"

=============================================================================
