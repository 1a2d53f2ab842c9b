------------------------------- MODULE Alerts -------------------------------
(***************************************************************************)
(* Alert evaluation, internal/server/alerts: the job alert-evaluation of   *)
(* several servers, which a lapsed lease lets overlap, and the operator who*)
(* changes the rules (internal/server/operations).                         *)
(*                                                                         *)
(* A run of the job reads all rules, then looks at every rule and node in  *)
(* turn and reconciles what it found with the alerts in the database.      *)
(* Reconcile is one transaction that begins with the upsert of the rule,   *)
(* whose row stays locked until it ends; what it reads of the alerts it    *)
(* reads under that lock, so that it is one step here.                     *)
(*                                                                         *)
(* Of a rule only enabled and severity are kept; whether its values are    *)
(* exceeded is a condition that comes and goes.                            *)
(***************************************************************************)
EXTENDS Integers

CONSTANTS
    Server,      \* processes that run the job
    Rules,       \* number of rules, in the order of their ids
    Nodes,       \* number of nodes, in the order of theirs
    Object,      \* owners, destinations or collectors a rule tells apart
    Severity,    \* the ranks of severityRank
    MaxEdits,    \* bound on the changes of rules
    MaxChanges,  \* bound on the changes of conditions
    MaxFails     \* bound on the runs that fail

ASSUME AlertsAssumption ==
    /\ Rules \in Nat \ {0} /\ Nodes \in Nat \ {0}
    /\ Severity \subseteq Nat \ {0} /\ Severity # {}
    /\ MaxEdits \in Nat /\ MaxChanges \in Nat /\ MaxFails \in Nat

VARIABLES
    rule,      \* alert_rules
    edits,     \* how often the operator has changed rules
    wanted,    \* history: a rule as the operator has left it
    exposed,   \* history: a run was under way when the operator did
    cond,      \* the fingerprints whose condition holds
    changes,   \* how often conditions have changed
    fails,     \* how many runs have failed
    pc,        \* of a run: "idle", "observe", "reconcile"
    at,        \* the place in the loops over rules and nodes
    rules,     \* the rules it has read
    findings,  \* the fingerprints it has found for the rule and node
    alert,     \* the open alert of a fingerprint; severity 0 when there is none
    told       \* history: the severity in the last delivery queued for it

ruleVars == <<rule, edits, wanted, exposed>>
runVars == <<pc, at, rules, findings>>
vars == <<ruleVars, cond, changes, fails, runVars, alert, told>>

-----------------------------------------------------------------------------

Rule == 1..Rules
Setting == [enabled : BOOLEAN, severity : Severity]

\* Fingerprint hashes the lengths and contents of its parts.
Fingerprint == [rule : Rule, node : 1..Nodes, object : Object]
NoAlert == [severity |-> 0, missing |-> 0]
Unread == [r \in Rule |-> CHOOSE setting \in Setting : TRUE]
Open(k) == alert[k].severity # 0

\* The rule and the node at place i of the two loops of Run.
RuleAt(i) == ((i - 1) \div Nodes) + 1
NodeAt(i) == ((i - 1) % Nodes) + 1
Of(i) == {k \in Fingerprint : k.rule = RuleAt(i) /\ k.node = NodeAt(i)}

Init ==
    /\ rule \in [Rule -> Setting]
    /\ edits = 0 /\ wanted = rule /\ exposed = [r \in Rule |-> FALSE]
    /\ cond \in SUBSET Fingerprint
    /\ changes = 0 /\ fails = 0
    /\ pc = [s \in Server |-> "idle"]
    /\ at = [s \in Server |-> 1]
    /\ rules = [s \in Server |-> Unread]
    /\ findings = [s \in Server |-> {}]
    /\ alert = [k \in Fingerprint |-> NoAlert]
    /\ told = [k \in Fingerprint |-> 0]

-----------------------------------------------------------------------------

\* The rules of the request are changed in one transaction.
UpdateAlertRules(request) ==
    /\ edits < MaxEdits
    /\ edits' = edits + 1
    /\ LET Edited(old) == [r \in Rule |-> IF r \in DOMAIN request THEN request[r] ELSE old[r]]
       IN rule' = Edited(rule) /\ wanted' = Edited(wanted)
    /\ exposed' = [r \in Rule |-> IF r \in DOMAIN request THEN \E s \in Server : pc[s] # "idle"
                                  ELSE exposed[r]]
    /\ UNCHANGED <<cond, changes, fails, runVars, alert, told>>

\* Traffic, agents and collectors change.
Change(k) ==
    /\ changes < MaxChanges
    /\ changes' = changes + 1
    /\ cond' = IF k \in cond THEN cond \ {k} ELSE cond \cup {k}
    /\ UNCHANGED <<ruleVars, fails, runVars, alert, told>>

-----------------------------------------------------------------------------

\* Runner.Run returns.  What the run has read is forgotten.
Return(s) ==
    /\ pc' = [pc EXCEPT ![s] = "idle"]
    /\ at' = [at EXCEPT ![s] = 1]
    /\ rules' = [rules EXCEPT ![s] = Unread]
    /\ findings' = [findings EXCEPT ![s] = {}]

\* Rules and Nodes.
Run(s) ==
    /\ pc[s] = "idle"
    /\ pc' = [pc EXCEPT ![s] = "observe"]
    /\ rules' = [rules EXCEPT ![s] = rule]
    /\ UNCHANGED <<ruleVars, cond, changes, fails, at, findings, alert, told>>

\* Faulty variant: a disabled rule is evaluated.
EvaluateAnyway(setting, observed) == observed

\* EvaluateRule on every observation.
EvaluateRule(setting, observed) == IF setting.enabled THEN observed ELSE {}

Observations(s) ==
    /\ pc[s] = "observe"
    /\ pc' = [pc EXCEPT ![s] = "reconcile"]
    /\ findings' = [findings EXCEPT ![s] = EvaluateRule(rules[s][RuleAt(at[s])], cond \cap Of(at[s]))]
    /\ UNCHANGED <<ruleVars, cond, changes, fails, at, rules, alert, told>>

\* Faulty variant: the severity follows the finding up and down.
ApplyFindingAsFound(current, severity) == [severity |-> severity, missing |-> 0]

\* ApplyFinding, and applyFinding for a fingerprint without an open alert.
ApplyFinding(current, severity) ==
    [severity |-> IF severity > current.severity THEN severity ELSE current.severity,
     missing |-> 0]

\* ApplyMissing: the second window in a row resolves.
ApplyMissing(current) ==
    IF current.severity = 0 \/ current.missing + 1 >= 2 THEN NoAlert
    ELSE [current EXCEPT !.missing = @ + 1]

\* Faulty variant: the rule is written as it was first installed.
UpsertDefault(r, setting) == [rule EXCEPT ![r] = [enabled |-> TRUE, severity |-> setting.severity]]

\* The upsert of the rule as it was read.
Upsert(r, setting) == [rule EXCEPT ![r] = setting]

Reconcile(s) ==
    /\ pc[s] = "reconcile"
    /\ LET r == RuleAt(at[s])
           severity == rules[s][r].severity
       IN /\ rule' = Upsert(r, rules[s][r])
          /\ alert' = [k \in Fingerprint |->
                          IF k \in findings[s] THEN ApplyFinding(alert[k], severity)
                          ELSE IF k \in Of(at[s]) THEN ApplyMissing(alert[k])
                          ELSE alert[k]]
          \* insertDelivery, when an alert is opened or its severity rises
          /\ told' = [k \in Fingerprint |->
                          IF k \in findings[s] /\ severity > alert[k].severity
                          THEN severity ELSE told[k]]
    /\ IF at[s] = Rules * Nodes
       THEN Return(s)
       ELSE /\ pc' = [pc EXCEPT ![s] = "observe"]
            /\ at' = [at EXCEPT ![s] = @ + 1]
            /\ findings' = [findings EXCEPT ![s] = {}]
            /\ UNCHANGED rules
    /\ UNCHANGED <<edits, wanted, exposed, cond, changes, fails>>

\* A query or the transaction fails, the job is cancelled or the process ends:
\* the rules and nodes that were still to come are left out.
RunFails(s) ==
    /\ pc[s] # "idle"
    /\ fails < MaxFails
    /\ fails' = fails + 1
    /\ Return(s)
    /\ UNCHANGED <<ruleVars, cond, changes, alert, told>>

-----------------------------------------------------------------------------

Operator ==
    \E edited \in SUBSET Rule \ {{}} : \E request \in [edited -> Setting] : UpdateAlertRules(request)

Step(s) == Run(s) \/ Observations(s) \/ Reconcile(s)

Next ==
    \/ Operator
    \/ \E k \in Fingerprint : Change(k)
    \/ \E s \in Server : Step(s) \/ RunFails(s)

Spec == Init /\ [][Next]_vars

\* The scheduler keeps running the job on every server, and a run ends.
Fairness == \A s \in Server : WF_vars(Step(s))

FairSpec == Spec /\ Fairness

-----------------------------------------------------------------------------

TypeOK ==
    /\ rule \in [Rule -> Setting]
    /\ wanted \in [Rule -> Setting] /\ exposed \in [Rule -> BOOLEAN]
    /\ edits \in 0..MaxEdits /\ changes \in 0..MaxChanges /\ fails \in 0..MaxFails
    /\ cond \subseteq Fingerprint
    /\ pc \in [Server -> {"idle", "observe", "reconcile"}]
    /\ at \in [Server -> 1..(Rules * Nodes)]
    /\ rules \in [Server -> [Rule -> Setting]]
    /\ findings \in [Server -> SUBSET Fingerprint]
    /\ \A s \in Server : findings[s] \subseteq Of(at[s])
    /\ alert \in [Fingerprint -> [severity : Severity \cup {0}, missing : 0..1]]
    /\ told \in [Fingerprint -> Severity \cup {0}]

\* Whoever receives the webhook has been told of every open alert with the
\* severity it has, whatever rules the overlapping runs have read
\* (store.go:24-41, repository.go:60-100).
Told == \A k \in Fingerprint : Open(k) => told[k] = alert[k].severity

\* A rule that the operator has changed while no run was under way stays as it
\* is, although every run writes all rules.  (One changed during a run may be
\* overwritten for good by the rule as the run has read it: runner.go:28,
\* repository.go:26-33.)
EditsStay == \A r \in Rule : rule[r] = wanted[r] \/ exposed[r]

\* When rules and conditions settle, the alerts do: in the end an alert is open
\* exactly if its condition holds and its rule is enabled.
Converges ==
    <>[][UNCHANGED <<rule, cond>>]_vars =>
        <>[](\A k \in Fingerprint : Open(k) <=> k \in cond /\ rule[k.rule].enabled)

=============================================================================
